---- MODULE Spec2Model ----
(***************************************************************************)
(* NFC-B poll-frame decoder (NfcB.cpp): ASK start-of-frame detector,       *)
(* symbol tracker, bit/byte framer, protocol classifier and CRC check.     *)
(*                                                                         *)
(* Numbers.  Samples and the power average are integers, SampleResolution  *)
(* units to the full-scale amplitude 1.0.  The integrators are sums of     *)
(* samples, so they are integers too.  The edge detector                   *)
(*     filterIntegrate / period4 - detectIntegrate / period8               *)
(* is kept multiplied by period4 * period8 (see EdgeDetector), and the     *)
(* comparisons of the code are made on cross-multiplied integers, so no    *)
(* rounding is introduced.  Thresholds are percentages.                    *)
(*                                                                         *)
(* The signal window.  The code reads the ring buffer at three places:     *)
(* the current sample and the samples period8 and period4 clocks back      *)
(* (offsetSignalIndex, offsetDetectIndex, offsetFilterIndex).  signalData  *)
(* keeps the newest samples first, as many as the core reads; a read       *)
(* further back than what was written is a read of the zero-filled buffer. *)
(***************************************************************************)
EXTENDS Integers, Sequences, FiniteSets, TLC

\* ------------------------------------------------------------ enumerations

\* a null selector
NULL == 0 - 1

SOF_BEGIN == 0
SOF_IDLE == 1
SOF_END == 2

Invalid == 0
NoPattern == 1
PatternL == 2
PatternH == 3

r106k == 0
r212k == 1
r424k == 2
Rates == r106k .. r424k

CarrierOff == 0
PollFrame == 2
ListenFrame == 3

Truncated == 8
CrcError == 32

SelectionFrame == 1
ApplicationFrame == 2

NFC_FC == 13560000

NFCA_REQB == 5

\* default modulation thresholds, in percent of the power average
minimumModulationThreshold == 10
maximumModulationThreshold == 50

\* the edge threshold 0.001 as the fraction 1 / EdgeThresholdDen
EdgeThresholdDen == 1000

DefaultMaxFrameSize == 256

\* ------------------------------------------------------------ model bounds

\* integer units per full-scale amplitude 1.0
SampleResolution == 10

\* a free-running source ends after this many samples
MaxClock == 112

\* cells (symbol periods) a script leaves to the source's choice after a frame
\* start, and after a full-size payload
FreeCells == 11
FreeTail == 3

\* sample rates handed to configure(): 847500 Hz gives 8 samples per symbol
SampleRates == {847500}

\* decoder->powerLevelThreshold, and a power average that does not exceed it
powerLevelThreshold == 2
WeakPower == powerLevelThreshold

\* the power average of a carrier at full scale
FullPower == SampleResolution

\* sample values for that carrier: unmodulated, modulated (depth 20%), deeper
\* (depth 30%), at the minimum threshold (depth 10%), beyond the maximum
\* threshold (depth 60%)
Unmodulated == SampleResolution
Modulated == SampleResolution - 2
Deep == SampleResolution - 3
Shallow == SampleResolution - 1
Overshoot == (SampleResolution \div 2) - 1

\* what a free-running source may send, what a script's free cells may hold
SignalLevels == {Deep, Modulated, Unmodulated}
CellLevels == {Modulated, Unmodulated}
ShallowLevels == {Shallow, Unmodulated, Unmodulated + 1}

\* ------------------------------------------------------------ state

VARIABLES
    sampleRate,        \* decoder->sampleRate (0: configure() has not run)
    bitrateParams,     \* BitrateParams per rate
    modulationStatus,  \* ModulationStatus per rate
    symbolStatus,      \* SymbolStatus
    streamStatus,      \* StreamStatus
    frameStatus,       \* FrameStatus
    protocolStatus,    \* ProtocolStatus
    lastFrameEnd,      \* last detected frame end
    chainedFlags,      \* chained frame flags
    signalClock,       \* decoder->signalClock
    signalData,        \* decoder->signalStatus.signalData, newest first
    powerAverage,      \* decoder->signalStatus.powerAverage
    bitrate,           \* decoder->bitrate   (NULL or a rate)
    modulation,        \* decoder->modulation (NULL or a rate)
    frames,            \* the caller's frame list
    detected,          \* what the last detect() returned
    tx                 \* the script the source plays (0: a free-running source)

vars == << sampleRate, bitrateParams, modulationStatus, symbolStatus,
           streamStatus, frameStatus, protocolStatus, lastFrameEnd,
           chainedFlags, signalClock, signalData, powerAverage, bitrate,
           modulation, frames, detected, tx >>

coreVars == << sampleRate, bitrateParams, modulationStatus, symbolStatus,
               streamStatus, frameStatus, protocolStatus, lastFrameEnd,
               chainedFlags, bitrate, modulation, frames, detected >>

\* ------------------------------------------------------------ zero values

ZeroBitrate ==
    [ rateType |-> 0, symbolsPerSecond |-> 0,
      period1SymbolSamples |-> 0, period2SymbolSamples |-> 0,
      period4SymbolSamples |-> 0, period8SymbolSamples |-> 0,
      symbolDelayDetect |-> 0,
      offsetSignalIndex |-> 0, offsetSymbolIndex |-> 0,
      offsetFilterIndex |-> 0, offsetDetectIndex |-> 0 ]

ZeroModulation ==
    [ searchStage |-> 0, searchStartTime |-> 0, searchEndTime |-> 0,
      searchPeakTime |-> 0, detectorPeek |-> 0,
      symbolStartTime |-> 0, symbolEndTime |-> 0, symbolSyncTime |-> 0,
      filterIntegrate |-> 0, detectIntegrate |-> 0 ]

ZeroSymbol == [ pattern |-> 0, value |-> 0, start |-> 0, end |-> 0, length |-> 0 ]

ZeroStream == [ buffer |-> << >>, bytes |-> 0, data |-> 0, bits |-> 0 ]

ZeroFrame ==
    [ frameType |-> 0, symbolRate |-> 0, frameStart |-> 0, frameEnd |-> 0,
      guardEnd |-> 0, waitingEnd |-> 0, lastCommand |-> 0,
      frameGuardTime |-> 0, frameWaitingTime |-> 0,
      startUpGuardTime |-> 0, requestGuardTime |-> 0 ]

ZeroProtocol ==
    [ maxFrameSize |-> 0, startUpGuardTime |-> 0, frameWaitingTime |-> 0,
      frameGuardTime |-> 0, requestGuardTime |-> 0 ]

\* ------------------------------------------------------------ configure

\* x >> n for the small shifts of the code
Shr(x, n) == x \div (2 ^ n)

RECURSIVE Gcd(_, _)
Gcd(a, b) == IF b = 0 THEN a ELSE Gcd(b, a % b)

\* sampleTimeUnit = sampleRate / NFC_FC, as a reduced fraction
TimeUnitNum(rate0) == rate0 \div Gcd(rate0, NFC_FC)
TimeUnitDen(rate0) == NFC_FC \div Gcd(rate0, NFC_FC)

\* int(round(sampleTimeUnit * cycles))
RoundSamples(rate0, cycles) ==
    (2 * TimeUnitNum(rate0) * cycles + TimeUnitDen(rate0)) \div (2 * TimeUnitDen(rate0))

\* int(sampleTimeUnit * cycles)
TruncSamples(rate0, cycles) == (TimeUnitNum(rate0) * cycles) \div TimeUnitDen(rate0)

RECURSIVE SymbolDelayDetect(_, _)
SymbolDelayDetect(rate0, rate) ==
    IF rate > r106k
    THEN SymbolDelayDetect(rate0, rate - 1)
         + RoundSamples(rate0, Shr(128, rate - 1))
    ELSE 0

\* offsets are kept modulo SignalBufferLength, as the distance back from the
\* newest sample (negated)
ConfigureBitrate(rate0, rate) ==
    LET delay == SymbolDelayDetect(rate0, rate)
        p1 == RoundSamples(rate0, Shr(128, rate))
        p2 == RoundSamples(rate0, Shr(64, rate))
        p4 == RoundSamples(rate0, Shr(32, rate))
        p8 == RoundSamples(rate0, Shr(16, rate))
    IN  [ rateType |-> rate,
          symbolsPerSecond |-> NFC_FC \div Shr(128, rate),
          period1SymbolSamples |-> p1, period2SymbolSamples |-> p2,
          period4SymbolSamples |-> p4, period8SymbolSamples |-> p8,
          symbolDelayDetect |-> delay,
          offsetSignalIndex |-> 0 - delay,
          offsetSymbolIndex |-> 0 - delay - p1,
          offsetFilterIndex |-> 0 - delay - p4,
          offsetDetectIndex |-> 0 - delay - p8 ]

ConfigureProtocol(rate0) ==
    [ maxFrameSize |-> DefaultMaxFrameSize,
      startUpGuardTime |-> TruncSamples(rate0, 256 * 16),
      frameWaitingTime |-> TruncSamples(rate0, 256 * 16 * 16),
      frameGuardTime |-> TruncSamples(rate0, 128 * 7),
      requestGuardTime |-> TruncSamples(rate0, 7000) ]

Configure(rate0) ==
    /\ sampleRate = 0
    /\ sampleRate' = rate0
    /\ symbolStatus' = ZeroSymbol
    /\ streamStatus' = ZeroStream
    /\ lastFrameEnd' = 0
    /\ chainedFlags' = 0
    /\ bitrateParams' = [ rate \in Rates |-> ConfigureBitrate(rate0, rate) ]
    /\ modulationStatus' = [ rate \in Rates |-> ZeroModulation ]
    /\ protocolStatus' = ConfigureProtocol(rate0)
    /\ frameStatus' =
         [ ZeroFrame EXCEPT
             !.startUpGuardTime = ConfigureProtocol(rate0).startUpGuardTime,
             !.frameWaitingTime = ConfigureProtocol(rate0).frameWaitingTime,
             !.frameGuardTime = ConfigureProtocol(rate0).frameGuardTime,
             !.requestGuardTime = ConfigureProtocol(rate0).requestGuardTime ]
    /\ UNCHANGED << signalClock, signalData, powerAverage, bitrate, modulation,
                    frames, detected, tx >>

\* ------------------------------------------------------------ signal source

\* the rates the detector loop visits: for (rate = r106k; rate <= r106k; rate++)
DetectRates == {r106k}

\* how many samples back the core reads, for the rates it visits
WindowLength(params) ==
    LET reach(rate) == params[rate].symbolDelayDetect
                         + params[rate].period4SymbolSamples + 1
    IN  CHOOSE n \in { reach(rate) : rate \in DetectRates } :
            \A rate \in DetectRates : reach(rate) <= n

Take(s, n) == IF Len(s) <= n THEN s ELSE SubSeq(s, 1, n)

\* nextSample(): one more sample in the window, the clock advanced by one
PushSample(data, sample, params) == Take(<< sample >> \o data, WindowLength(params))

\* signalData[(offset + signalClock) & (SignalBufferLength - 1)]
SignalAt(data, offset) ==
    IF 1 - offset <= Len(data) THEN data[1 - offset] ELSE 0

\* ------------------------------------------------------------ edge and depth

\* both moving sums, one sample on
Integrate(m, b, data) ==
    [ m EXCEPT
        !.filterIntegrate = @ + SignalAt(data, b.offsetSignalIndex)
                              - SignalAt(data, b.offsetFilterIndex),
        !.detectIntegrate = @ + SignalAt(data, b.offsetSignalIndex)
                              - SignalAt(data, b.offsetDetectIndex) ]

\* (filterIntegrate / period4 - detectIntegrate / period8) * period4 * period8
EdgeDetector(m, b) ==
    m.filterIntegrate * b.period8SymbolSamples
      - m.detectIntegrate * b.period4SymbolSamples

\* edgeDetector > 0.001
EdgeAbove(edge, b) ==
    edge * EdgeThresholdDen
      > b.period4SymbolSamples * b.period8SymbolSamples * SampleResolution

Abs(x) == IF x < 0 THEN 0 - x ELSE x

\* the depth test with >= for >
DeepAtLeast(power, sample, threshold) ==
    100 * (power - sample) >= threshold * power

\* modulationDeep > threshold, modulationDeep = (powerAverage - signalData) / powerAverage
DeepAbove(power, sample, threshold) ==
    100 * (power - sample) > threshold * power

\* ------------------------------------------------------------ detect()

\* the fields the three "reset modulation" branches of IDLE and END clear
ResetSearch(m) ==
    [ m EXCEPT !.searchStage = SOF_BEGIN, !.searchStartTime = 0,
               !.searchEndTime = 0, !.searchPeakTime = 0, !.detectorPeek = 0,
               !.symbolStartTime = 0, !.symbolEndTime = 0 ]

\* the overshoot branch clearing the held peak only
ResetPeekOnly(m) == [ m EXCEPT !.detectorPeek = 0 ]

\* modulationDeep > maximumModulationThreshold
ResetOvershoot(m) ==
    [ m EXCEPT !.searchStage = SOF_BEGIN, !.searchStartTime = 0,
               !.searchEndTime = 0, !.detectorPeek = 0 ]

\* case SOF_BEGIN; m is the status after the integrators were updated
DetectBegin(m, b, clock, edge, deep) ==
    LET peak == m.detectorPeek < edge /\ EdgeAbove(edge, b) /\ deep
        m1 == IF peak
              THEN [ m EXCEPT !.detectorPeek = edge, !.searchPeakTime = clock,
                              !.searchEndTime = clock + b.period4SymbolSamples ]
              ELSE m
    IN  IF clock = m1.searchEndTime
        THEN IF m1.searchPeakTime # 0
             THEN [ m1 EXCEPT
                      !.symbolStartTime = m1.searchPeakTime - b.period8SymbolSamples,
                      !.searchStage = SOF_IDLE,
                      !.searchStartTime = m1.searchPeakTime
                          + 10 * b.period1SymbolSamples - b.period2SymbolSamples,
                      !.searchEndTime = m1.searchPeakTime
                          + 11 * b.period1SymbolSamples + b.period2SymbolSamples,
                      !.searchPeakTime = 0,
                      !.detectorPeek = 0 ]
             ELSE [ m1 EXCEPT !.searchStartTime = 0, !.searchEndTime = 0 ]
        ELSE m1

\* the IDLE stage ignoring any edge met before its window
DetectIdleInWindowOnly(m, b, clock, edge) ==
    IF clock > m.searchStartTime /\ clock <= m.searchEndTime
    THEN LET peak == EdgeAbove(0 - edge, b) /\ m.detectorPeek > edge
             m1 == IF peak
                   THEN [ m EXCEPT !.detectorPeek = edge, !.searchPeakTime = clock,
                                   !.searchEndTime = clock + b.period4SymbolSamples ]
                   ELSE m
         IN  IF clock = m1.searchEndTime
             THEN IF m1.searchPeakTime # 0
                  THEN [ m1 EXCEPT
                           !.searchStage = SOF_END,
                           !.searchStartTime = m1.searchPeakTime
                               + 2 * b.period1SymbolSamples - b.period2SymbolSamples,
                           !.searchEndTime = m1.searchPeakTime
                               + 3 * b.period1SymbolSamples + b.period2SymbolSamples,
                           !.searchPeakTime = 0,
                           !.detectorPeek = 0 ]
                  ELSE ResetSearch(m1)
             ELSE m1
    ELSE m

\* case SOF_IDLE
DetectIdle(m, b, clock, edge) ==
    IF clock > m.searchStartTime /\ clock <= m.searchEndTime
    THEN LET peak == EdgeAbove(0 - edge, b) /\ m.detectorPeek > edge
             m1 == IF peak
                   THEN [ m EXCEPT !.detectorPeek = edge, !.searchPeakTime = clock,
                                   !.searchEndTime = clock + b.period4SymbolSamples ]
                   ELSE m
         IN  IF clock = m1.searchEndTime
             THEN IF m1.searchPeakTime # 0
                  THEN [ m1 EXCEPT
                           !.searchStage = SOF_END,
                           !.searchStartTime = m1.searchPeakTime
                               + 2 * b.period1SymbolSamples - b.period2SymbolSamples,
                           !.searchEndTime = m1.searchPeakTime
                               + 3 * b.period1SymbolSamples + b.period2SymbolSamples,
                           !.searchPeakTime = 0,
                           !.detectorPeek = 0 ]
                  ELSE ResetSearch(m1)
             ELSE m1
    ELSE IF EdgeAbove(Abs(edge), b) THEN ResetSearch(m) ELSE m

\* the END stage closes its window, with a peak or without
ConfirmsAtClose(m, clock) ==
    /\ m.searchStage = SOF_END
    /\ clock > m.searchStartTime /\ clock <= m.searchEndTime
    /\ clock = m.searchEndTime

\* the END stage closes its window with a recorded peak: the SOF is confirmed
ConfirmsSof(m, clock) ==
    /\ m.searchStage = SOF_END
    /\ clock > m.searchStartTime /\ clock <= m.searchEndTime
    /\ clock = m.searchEndTime
    /\ m.searchPeakTime # 0

\* case SOF_END, the modulation status; m1 of the code is TrackEnd
TrackEnd(m, b, clock, edge, deep) ==
    IF /\ clock > m.searchStartTime /\ clock <= m.searchEndTime
       /\ EdgeAbove(edge, b) /\ m.detectorPeek < edge /\ deep
    THEN [ m EXCEPT !.detectorPeek = edge, !.searchPeakTime = clock,
                    !.searchEndTime = clock + b.period8SymbolSamples ]
    ELSE m

DetectEnd(m, b, clock, edge, deep) ==
    LET m1 == TrackEnd(m, b, clock, edge, deep)
    IN  IF clock > m.searchStartTime /\ clock <= m.searchEndTime
        THEN IF clock = m1.searchEndTime
             THEN IF m1.searchPeakTime # 0
                  THEN [ m1 EXCEPT
                           !.symbolEndTime = m1.searchPeakTime - b.period8SymbolSamples,
                           !.symbolSyncTime = 0,
                           !.searchStage = SOF_BEGIN,
                           !.searchStartTime = 0,
                           !.searchEndTime = 0,
                           !.detectorPeek = 0 ]
                  ELSE ResetSearch(m1)
             ELSE m1
        ELSE m

\* detectModulation() for one rate, after nextSample(): the new modulation
\* status, whether the SOF was confirmed, and the frame status
DetectRate(m0, b, fs, clock, data, power) ==
    LET m == Integrate(m0, b, data)
        edge == EdgeDetector(m, b)
        sample == SignalAt(data, b.offsetSignalIndex)
        deep == DeepAbove(power, sample, minimumModulationThreshold)
    IN  IF DeepAbove(power, sample, maximumModulationThreshold)
        THEN [ mod |-> ResetOvershoot(m), ret |-> FALSE, frame |-> fs ]
        ELSE IF m.searchStage = SOF_BEGIN
        THEN [ mod |-> DetectBegin(m, b, clock, edge, deep), ret |-> FALSE, frame |-> fs ]
        ELSE IF m.searchStage = SOF_IDLE
        THEN [ mod |-> DetectIdle(m, b, clock, edge), ret |-> FALSE, frame |-> fs ]
        ELSE IF m.searchStage = SOF_END
        THEN LET m1 == TrackEnd(m, b, clock, edge, deep)
                 hit == ConfirmsSof(m1, clock)
             IN  [ mod |-> DetectEnd(m, b, clock, edge, deep),
                   ret |-> hit,
                   frame |-> IF hit
                             THEN [ fs EXCEPT
                                      !.frameType = PollFrame,
                                      !.symbolRate = b.symbolsPerSecond,
                                      !.frameStart = m1.symbolStartTime - b.symbolDelayDetect,
                                      !.frameEnd = 0 ]
                             ELSE fs ]
        ELSE [ mod |-> m, ret |-> FALSE, frame |-> fs ]

\* detect() running the SOF search whatever the power average
DetectAnyPower(sample, power) ==
    /\ sampleRate # 0
    /\ bitrate = NULL
    /\ signalClock' = signalClock + 1
    /\ signalData' = PushSample(signalData, sample, bitrateParams)
    /\ powerAverage' = power
    /\ IF power >= 0
       THEN LET r == [ rate \in DetectRates |->
                        DetectRate(modulationStatus[rate], bitrateParams[rate],
                                   frameStatus, signalClock', signalData', power) ]
                hits == { rate \in DetectRates : r[rate].ret }
                first == CHOOSE rate \in hits : \A other \in hits : rate <= other
                visited(rate) == rate \in DetectRates /\ (hits = {} \/ rate <= first)
            IN  /\ modulationStatus' =
                     [ rate \in Rates |->
                         IF visited(rate) THEN r[rate].mod ELSE modulationStatus[rate] ]
                /\ frameStatus' = IF hits = {} THEN frameStatus ELSE r[first].frame
                /\ detected' = (hits # {})
                /\ bitrate' = IF hits = {} THEN bitrate ELSE first
                /\ modulation' = IF hits = {} THEN modulation ELSE first
       ELSE /\ detected' = FALSE
            /\ UNCHANGED << modulationStatus, frameStatus, bitrate, modulation >>
    /\ UNCHANGED << sampleRate, bitrateParams, symbolStatus, streamStatus,
                    protocolStatus, lastFrameEnd, chainedFlags, frames, tx >>

\* the driver takes the next sample and calls detect(): the rates are visited
\* in order and the first confirmed SOF ends the loop
Detect(sample, power) ==
    /\ sampleRate # 0
    /\ bitrate = NULL
    /\ signalClock' = signalClock + 1
    /\ signalData' = PushSample(signalData, sample, bitrateParams)
    /\ powerAverage' = power
    /\ IF power > powerLevelThreshold
       THEN LET r == [ rate \in DetectRates |->
                        DetectRate(modulationStatus[rate], bitrateParams[rate],
                                   frameStatus, signalClock', signalData', power) ]
                hits == { rate \in DetectRates : r[rate].ret }
                first == CHOOSE rate \in hits : \A other \in hits : rate <= other
                visited(rate) == rate \in DetectRates /\ (hits = {} \/ rate <= first)
            IN  /\ modulationStatus' =
                     [ rate \in Rates |->
                         IF visited(rate) THEN r[rate].mod ELSE modulationStatus[rate] ]
                /\ frameStatus' = IF hits = {} THEN frameStatus ELSE r[first].frame
                /\ detected' = (hits # {})
                /\ bitrate' = IF hits = {} THEN bitrate ELSE first
                /\ modulation' = IF hits = {} THEN modulation ELSE first
       ELSE /\ detected' = FALSE
            /\ UNCHANGED << modulationStatus, frameStatus, bitrate, modulation >>
    /\ UNCHANGED << sampleRate, bitrateParams, symbolStatus, streamStatus,
                    protocolStatus, lastFrameEnd, chainedFlags, frames, tx >>

\* ------------------------------------------------------------ resetModulation()

\* resetModulation() clearing every field of the rate
ResetModulationStatusAll(m) == ZeroModulation

\* the per-rate fields resetModulation() clears
ResetModulationStatus(m) ==
    [ m EXCEPT !.searchStage = 0, !.searchStartTime = 0, !.searchEndTime = 0,
               !.detectorPeek = 0 ]

ResetFrameStatus(fs) ==
    [ fs EXCEPT !.frameType = 0, !.frameStart = 0, !.frameEnd = 0 ]

\* ------------------------------------------------------------ checkCrc()

RECURSIVE Xor(_, _)
Xor(a, b) ==
    IF a = 0 THEN b
    ELSE IF b = 0 THEN a
    ELSE (((a % 2) + (b % 2)) % 2) + 2 * Xor(a \div 2, b \div 2)

\* the update without the step d = d ^ (d << 4)
CrcUpdateUnfolded(crc, byte) ==
    LET d == Xor(byte, crc % 256)
    IN  Xor(Xor(Xor(crc \div 256, (d * 256) % 65536), (d * 8) % 65536), d \div 16)

\* one byte into the CRC register
CrcUpdate(crc, byte) ==
    LET d1 == Xor(byte, crc % 256)
        d == Xor(d1, (d1 * 16) % 256)
    IN  Xor(Xor(Xor(crc \div 256, (d * 256) % 65536), (d * 8) % 65536), d \div 16)

RECURSIVE CrcRange(_, _, _, _)
\* the loop "for (i = lo; i <= hi; i++)" of checkCrc on register crc (bytes
\* are numbered from 1 here); the range is halved to keep the evaluation shallow
CrcRange(payload, crc, lo, hi) ==
    IF lo > hi THEN crc
    ELSE IF lo = hi THEN CrcUpdate(crc, payload[lo])
    ELSE LET mid == (lo + hi) \div 2
             left == CrcRange(payload, crc, lo, mid)
         IN  IF left >= 0 THEN CrcRange(payload, left, mid + 1, hi) ELSE left

\* the register after the first n bytes, from 0
CrcRegisterFromZero(payload, n) == CrcRange(payload, 0, 1, n)

\* the register after the first n bytes, from 0xFFFF
CrcRegister(payload, n) == CrcRange(payload, 65535, 1, n)

\* checkCrc() refusing only the frames too short to index
checkCrcFromTwoBytes(payload) ==
    LET length == Len(payload)
    IN  IF length <= 1
        THEN FALSE
        ELSE payload[length - 1] + 256 * payload[length]
               = 65535 - CrcRegister(payload, length - 2)

checkCrc(payload) ==
    LET length == Len(payload)
    IN  IF length <= 2
        THEN FALSE
        ELSE payload[length - 1] + 256 * payload[length]
               = 65535 - CrcRegister(payload, length - 2)

\* ------------------------------------------------------------ NfcFrame

\* NfcFrame::setFrameFlags adds flags to the frame's mask
SetFrameFlags(flags, add) ==
    LET bit(x, k) == (x \div k) % 2
        or(k) == IF bit(flags, k) = 1 \/ bit(add, k) = 1 THEN k ELSE 0
    IN  or(1) + or(2) + or(4) + or(8) + or(16) + or(32) + or(64)

HasFrameFlags(flags, flag) == (flags \div flag) % 2 = 1

\* ------------------------------------------------------------ process()

\* the REQB test on the first byte alone
IsREQBAnyLength(payload) == Len(payload) >= 1 /\ payload[1] = NFCA_REQB

\* frame[0] == NFCA_REQB && frame.limit() == 5 (the length is tested first
\* here, frame[0] is read of a frame that has a byte)
IsREQB(payload) == Len(payload) = 5 /\ payload[1] = NFCA_REQB

\* processOther() leaving the CRC unchecked
ProcessFrameNoCrc(frame) ==
    [ frame EXCEPT
        !.phase = IF IsREQB(frame.payload) THEN SelectionFrame ELSE ApplicationFrame,
        !.flags = SetFrameFlags(
                    SetFrameFlags(@, IF IsREQB(frame.payload) /\ ~checkCrc(frame.payload)
                                     THEN CrcError ELSE 0),
                    IF IsREQB(frame.payload) THEN 0 ELSE chainedFlags) ]

\* processREQB() / processOther() on the frame
ProcessFrame(frame) ==
    [ frame EXCEPT
        !.phase = IF IsREQB(frame.payload) THEN SelectionFrame ELSE ApplicationFrame,
        !.flags = SetFrameFlags(
                    SetFrameFlags(@, IF checkCrc(frame.payload) THEN 0 ELSE CrcError),
                    IF IsREQB(frame.payload) THEN 0 ELSE chainedFlags) ]

\* processREQB() on the protocol parameters
ProcessProtocol(ps, payload) ==
    IF IsREQB(payload)
    THEN [ ps EXCEPT !.maxFrameSize = 256,
                     !.frameGuardTime = TruncSamples(sampleRate, 128 * 7),
                     !.frameWaitingTime = TruncSamples(sampleRate, 256 * 16 * 16) ]
    ELSE ps

\* process() leaving the frame type PollFrame
ProcessStatusKeepsPoll(fs, payload, b) ==
    LET waiting == IF IsREQB(payload)
                   THEN TruncSamples(sampleRate, 128 * 18)
                   ELSE protocolStatus.frameWaitingTime
        guard == IF IsREQB(payload)
                 THEN TruncSamples(sampleRate, 128 * 7)
                 ELSE fs.frameGuardTime
    IN  [ fs EXCEPT
            !.lastCommand = IF IsREQB(payload) THEN payload[1] ELSE @,
            !.frameGuardTime = guard,
            !.frameWaitingTime = waiting,
            !.guardEnd = fs.frameEnd + guard + b.symbolDelayDetect,
            !.waitingEnd = fs.frameEnd + waiting + b.symbolDelayDetect,
            !.frameStart = 0,
            !.frameEnd = 0 ]

\* process() counting the response times from the start of the frame
ProcessStatusFromStart(fs, payload, b) ==
    LET waiting == IF IsREQB(payload)
                   THEN TruncSamples(sampleRate, 128 * 18)
                   ELSE protocolStatus.frameWaitingTime
        guard == IF IsREQB(payload)
                 THEN TruncSamples(sampleRate, 128 * 7)
                 ELSE fs.frameGuardTime
    IN  [ fs EXCEPT
            !.lastCommand = IF IsREQB(payload) THEN payload[1] ELSE @,
            !.frameGuardTime = guard,
            !.frameWaitingTime = waiting,
            !.guardEnd = fs.frameStart + guard + b.symbolDelayDetect,
            !.waitingEnd = fs.frameStart + waiting + b.symbolDelayDetect,
            !.frameType = ListenFrame,
            !.frameStart = 0,
            !.frameEnd = 0 ]

\* process() on the frame status, for a poll frame, decoder->bitrate = b
ProcessStatus(fs, payload, b) ==
    LET waiting == IF IsREQB(payload)
                   THEN TruncSamples(sampleRate, 128 * 18)
                   ELSE protocolStatus.frameWaitingTime
        guard == IF IsREQB(payload)
                 THEN TruncSamples(sampleRate, 128 * 7)
                 ELSE fs.frameGuardTime
    IN  [ fs EXCEPT
            !.lastCommand = IF IsREQB(payload) THEN payload[1] ELSE @,
            !.frameGuardTime = guard,
            !.frameWaitingTime = waiting,
            !.guardEnd = fs.frameEnd + guard + b.symbolDelayDetect,
            !.waitingEnd = fs.frameEnd + waiting + b.symbolDelayDetect,
            !.frameType = ListenFrame,
            !.frameStart = 0,
            !.frameEnd = 0 ]

\* ------------------------------------------------------------ symbol tracker

\* the symbol routine predicting the symbol end half a symbol after its start
TrackSymbolHalf(m0, b, clock, data, power) ==
    LET m1 == Integrate(m0, b, data)
        edge == Abs(EdgeDetector(m1, b))
        sample == SignalAt(data, b.offsetSignalIndex)
        deep == DeepAbove(power, sample, minimumModulationThreshold)
        m2 == IF /\ clock > m1.searchStartTime /\ clock < m1.searchEndTime
                 /\ EdgeAbove(edge, b) /\ m1.detectorPeek < edge /\ deep
              THEN [ m1 EXCEPT !.detectorPeek = edge,
                               !.symbolEndTime = clock - b.period8SymbolSamples,
                               !.symbolSyncTime = 0 ]
              ELSE m1
        m3 == IF m2.symbolSyncTime = 0
              THEN [ m2 EXCEPT
                       !.symbolStartTime = m2.symbolEndTime,
                       !.symbolEndTime = m2.symbolEndTime + b.period2SymbolSamples,
                       !.symbolSyncTime = m2.symbolEndTime + b.period2SymbolSamples ]
              ELSE m2
    IN  IF clock = m3.symbolSyncTime
        THEN [ mod |-> [ m3 EXCEPT
                           !.searchStartTime = m3.symbolEndTime - b.period4SymbolSamples,
                           !.searchEndTime = m3.symbolEndTime + b.period4SymbolSamples,
                           !.symbolSyncTime = 0,
                           !.detectorPeek = 0 ],
               symbol |-> [ value |-> IF deep THEN 0 ELSE 1,
                            start |-> m3.symbolStartTime - b.symbolDelayDetect,
                            end |-> m3.symbolEndTime - b.symbolDelayDetect,
                            length |-> m3.symbolEndTime - m3.symbolStartTime,
                            pattern |-> IF deep THEN PatternL ELSE PatternH ] ]
        ELSE [ mod |-> m3, symbol |-> [ symbolStatus EXCEPT !.pattern = Invalid ] ]

\* the symbol routine taking a re-synchronization edge for the end of the
\* symbol before
TrackSymbolResyncBack(m0, b, clock, data, power) ==
    LET m1 == Integrate(m0, b, data)
        edge == Abs(EdgeDetector(m1, b))
        sample == SignalAt(data, b.offsetSignalIndex)
        deep == DeepAbove(power, sample, minimumModulationThreshold)
        m2 == IF /\ clock > m1.searchStartTime /\ clock < m1.searchEndTime
                 /\ EdgeAbove(edge, b) /\ m1.detectorPeek < edge /\ deep
              THEN [ m1 EXCEPT !.detectorPeek = edge,
                               !.symbolEndTime = clock - b.period1SymbolSamples,
                               !.symbolSyncTime = 0 ]
              ELSE m1
        m3 == IF m2.symbolSyncTime = 0
              THEN [ m2 EXCEPT
                       !.symbolStartTime = m2.symbolEndTime,
                       !.symbolEndTime = m2.symbolEndTime + b.period1SymbolSamples,
                       !.symbolSyncTime = m2.symbolEndTime + b.period2SymbolSamples ]
              ELSE m2
    IN  IF clock = m3.symbolSyncTime
        THEN [ mod |-> [ m3 EXCEPT
                           !.searchStartTime = m3.symbolEndTime - b.period4SymbolSamples,
                           !.searchEndTime = m3.symbolEndTime + b.period4SymbolSamples,
                           !.symbolSyncTime = 0,
                           !.detectorPeek = 0 ],
               symbol |-> [ value |-> IF deep THEN 0 ELSE 1,
                            start |-> m3.symbolStartTime - b.symbolDelayDetect,
                            end |-> m3.symbolEndTime - b.symbolDelayDetect,
                            length |-> m3.symbolEndTime - m3.symbolStartTime,
                            pattern |-> IF deep THEN PatternL ELSE PatternH ] ]
        ELSE [ mod |-> m3, symbol |-> [ symbolStatus EXCEPT !.pattern = Invalid ] ]

\* one pass of the sample loop of decodePollFrameSymbolAsk(), after nextSample()
TrackSymbol(m0, b, clock, data, power) ==
    LET m1 == Integrate(m0, b, data)
        edge == Abs(EdgeDetector(m1, b))
        sample == SignalAt(data, b.offsetSignalIndex)
        deep == DeepAbove(power, sample, minimumModulationThreshold)
        m2 == IF /\ clock > m1.searchStartTime /\ clock < m1.searchEndTime
                 /\ EdgeAbove(edge, b) /\ m1.detectorPeek < edge /\ deep
              THEN [ m1 EXCEPT !.detectorPeek = edge,
                               !.symbolEndTime = clock - b.period8SymbolSamples,
                               !.symbolSyncTime = 0 ]
              ELSE m1
        m3 == IF m2.symbolSyncTime = 0
              THEN [ m2 EXCEPT
                       !.symbolStartTime = m2.symbolEndTime,
                       !.symbolEndTime = m2.symbolEndTime + b.period1SymbolSamples,
                       !.symbolSyncTime = m2.symbolEndTime + b.period2SymbolSamples ]
              ELSE m2
    IN  IF clock = m3.symbolSyncTime
        THEN [ mod |-> [ m3 EXCEPT
                           !.searchStartTime = m3.symbolEndTime - b.period4SymbolSamples,
                           !.searchEndTime = m3.symbolEndTime + b.period4SymbolSamples,
                           !.symbolSyncTime = 0,
                           !.detectorPeek = 0 ],
               symbol |-> [ value |-> IF deep THEN 0 ELSE 1,
                            start |-> m3.symbolStartTime - b.symbolDelayDetect,
                            end |-> m3.symbolEndTime - b.symbolDelayDetect,
                            length |-> m3.symbolEndTime - m3.symbolStartTime,
                            pattern |-> IF deep THEN PatternL ELSE PatternH ] ]
        ELSE [ mod |-> m3, symbol |-> [ symbolStatus EXCEPT !.pattern = Invalid ] ]

\* ------------------------------------------------------------ framer

\* the framer taking any PatternL at the stop-bit position for the EOF
FrameEndAnyData(ss, pattern) == ss.bits = 9 /\ pattern = PatternL

FrameEnd(ss, pattern) == ss.bits = 9 /\ ss.data = 0 /\ pattern = PatternL

StreamError(ss, pattern) ==
    /\ ~FrameEnd(ss, pattern)
    /\ \/ ss.bits = 0 /\ pattern = PatternH
       \/ ss.bits = 9 /\ pattern = PatternL

\* the framer without the size limit
NoTruncateError(ss, pattern, ps) == ss.bytes < 0

TruncateError(ss, pattern, ps) ==
    /\ ~FrameEnd(ss, pattern)
    /\ ~StreamError(ss, pattern)
    /\ ss.bytes = ps.maxFrameSize

Terminal(ss, pattern, ps) ==
    FrameEnd(ss, pattern) \/ StreamError(ss, pattern) \/ TruncateError(ss, pattern, ps)

\* the framer without the byte check: every terminal condition emits
EmitsAlways(ss) == ss.bytes >= 0

\* a valid frame must contain at least one byte of data
EmitsFrame(ss) == ss.bytes > 0

\* value << n
Shl(value, n) == value * (2 ^ n)

\* data |= x, for x with one bit set or none
OrBit(data, x) == IF x = 0 \/ (data \div x) % 2 = 1 THEN data ELSE data + x

\* the framer storing the first data bit received as the most significant
NextBitMsbFirst(ss, value) ==
    IF ss.bits < 9
    THEN [ ss EXCEPT
             !.data = IF ss.bits > 0 THEN OrBit(@, Shl(value, 8 - ss.bits)) ELSE @,
             !.bits = @ + 1 ]
    ELSE [ ss EXCEPT !.buffer = Append(@, ss.data), !.bytes = @ + 1,
                     !.data = 0, !.bits = 0 ]

\* "decode next bit" / "store full byte in stream buffer"
NextBit(ss, value) ==
    IF ss.bits < 9
    THEN [ ss EXCEPT
             !.data = IF ss.bits > 0 THEN OrBit(@, Shl(value, ss.bits - 1)) ELSE @,
             !.bits = @ + 1 ]
    ELSE [ ss EXCEPT !.buffer = Append(@, ss.data), !.bytes = @ + 1,
                     !.data = 0, !.bits = 0 ]

\* the frame built with the flag set for the size limit only
ResponseLimitOnly(ss, fs, sym, pattern, ps) ==
    [ frameType |-> PollFrame,
      frameRate |-> bitrateParams[bitrate].symbolsPerSecond,
      sampleStart |-> fs.frameStart,
      sampleEnd |-> sym.end,
      flags |-> IF TruncateError(ss, pattern, ps) THEN Truncated ELSE 0,
      phase |-> 0,
      payload |-> SubSeq(ss.buffer, 1, ss.bytes) ]

\* the frame built without setSampleStart()
ResponseNoStart(ss, fs, sym, pattern, ps) ==
    [ frameType |-> PollFrame,
      frameRate |-> bitrateParams[bitrate].symbolsPerSecond,
      sampleStart |-> 0,
      sampleEnd |-> sym.end,
      flags |-> IF TruncateError(ss, pattern, ps) \/ StreamError(ss, pattern)
                THEN Truncated ELSE 0,
      phase |-> 0,
      payload |-> SubSeq(ss.buffer, 1, ss.bytes) ]

\* the frame built with the start of the terminating symbol for its start
ResponseFromSymbolStart(ss, fs, sym, pattern, ps) ==
    [ frameType |-> PollFrame,
      frameRate |-> bitrateParams[bitrate].symbolsPerSecond,
      sampleStart |-> sym.start,
      sampleEnd |-> sym.end,
      flags |-> IF TruncateError(ss, pattern, ps) \/ StreamError(ss, pattern)
                THEN Truncated ELSE 0,
      phase |-> 0,
      payload |-> SubSeq(ss.buffer, 1, ss.bytes) ]

\* the NfcFrame built when a frame ends, before process()
Response(ss, fs, sym, pattern, ps) ==
    [ frameType |-> PollFrame,
      frameRate |-> bitrateParams[bitrate].symbolsPerSecond,
      sampleStart |-> fs.frameStart,
      sampleEnd |-> sym.end,
      flags |-> IF TruncateError(ss, pattern, ps) \/ StreamError(ss, pattern)
                THEN Truncated ELSE 0,
      phase |-> 0,
      payload |-> SubSeq(ss.buffer, 1, ss.bytes) ]

\* the modulation fields cleared when a frame is emitted
ClearSymbolTimes(m) ==
    [ m EXCEPT !.symbolStartTime = 0, !.symbolEndTime = 0, !.symbolSyncTime = 0,
               !.filterIntegrate = 0, !.detectIntegrate = 0 ]

\* ------------------------------------------------------------ decode()

\* decode() takes one more sample from the buffer: one pass of the sample
\* loop and, when it yields a symbol, the framer's pass for that symbol
DecodeSample(sample, power) ==
    /\ sampleRate # 0
    /\ bitrate # NULL
    /\ frameStatus.frameType = PollFrame
    /\ signalClock' = signalClock + 1
    /\ signalData' = PushSample(signalData, sample, bitrateParams)
    /\ powerAverage' = power
    /\ LET b == bitrateParams[bitrate]
           t == TrackSymbol(modulationStatus[modulation], b, signalClock',
                            signalData', power)
           pattern == t.symbol.pattern
           fs == [ frameStatus EXCEPT !.frameEnd = t.symbol.end ]
           response == Response(streamStatus, fs, t.symbol, pattern, protocolStatus)
       IN  IF pattern <= NoPattern
           THEN /\ modulationStatus' = [ modulationStatus EXCEPT ![modulation] = t.mod ]
                /\ symbolStatus' = t.symbol
                /\ UNCHANGED << streamStatus, frameStatus, protocolStatus,
                                lastFrameEnd, chainedFlags, bitrate, modulation,
                                frames >>
           ELSE IF ~Terminal(streamStatus, pattern, protocolStatus)
           THEN /\ modulationStatus' = [ modulationStatus EXCEPT ![modulation] = t.mod ]
                /\ symbolStatus' = t.symbol
                /\ streamStatus' = NextBit(streamStatus, t.symbol.value)
                /\ UNCHANGED << frameStatus, protocolStatus, lastFrameEnd,
                                chainedFlags, bitrate, modulation, frames >>
           ELSE IF EmitsFrame(streamStatus)
           THEN /\ modulationStatus' =
                     [ modulationStatus EXCEPT ![modulation] = ClearSymbolTimes(t.mod) ]
                /\ symbolStatus' = t.symbol
                /\ streamStatus' = ZeroStream
                /\ frames' = Append(frames, ProcessFrame(response))
                /\ protocolStatus' = ProcessProtocol(protocolStatus, response.payload)
                /\ frameStatus' = ProcessStatus(fs, response.payload, b)
                /\ chainedFlags' = IF IsREQB(response.payload) THEN 0 ELSE chainedFlags
                /\ lastFrameEnd' = fs.frameEnd
                /\ bitrate' = NULL
                /\ modulation' = NULL
           ELSE /\ modulationStatus' =
                     [ rate \in Rates |->
                         ResetModulationStatus(
                           IF rate = modulation THEN t.mod ELSE modulationStatus[rate]) ]
                /\ symbolStatus' = ZeroSymbol
                /\ streamStatus' = ZeroStream
                /\ frameStatus' = ResetFrameStatus(frameStatus)
                /\ bitrate' = NULL
                /\ modulation' = NULL
                /\ UNCHANGED << protocolStatus, lastFrameEnd, chainedFlags, frames >>
    /\ detected' = FALSE
    /\ UNCHANGED << sampleRate, bitrateParams, tx >>

\* decode() returning on an exhausted buffer with the character in progress
\* dropped
DecodeExhaustedDropsBits ==
    /\ sampleRate # 0
    /\ bitrate # NULL
    /\ frameStatus.frameType = PollFrame
    /\ symbolStatus' = [ symbolStatus EXCEPT !.pattern = Invalid ]
    /\ streamStatus' = [ streamStatus EXCEPT !.bits = 0, !.data = 0 ]
    /\ UNCHANGED << sampleRate, bitrateParams, modulationStatus,
                    frameStatus, protocolStatus, lastFrameEnd, chainedFlags,
                    signalClock, signalData, powerAverage, bitrate, modulation,
                    frames, detected, tx >>

\* the buffer is exhausted: nextSample() fails, the symbol routine returns
\* Invalid and decode() returns
DecodeExhausted ==
    /\ sampleRate # 0
    /\ bitrate # NULL
    /\ frameStatus.frameType = PollFrame
    /\ symbolStatus' = [ symbolStatus EXCEPT !.pattern = Invalid ]
    /\ UNCHANGED << sampleRate, bitrateParams, modulationStatus, streamStatus,
                    frameStatus, protocolStatus, lastFrameEnd, chainedFlags,
                    signalClock, signalData, powerAverage, bitrate, modulation,
                    frames, detected, tx >>

\* ------------------------------------------------------------ initial state

\* the state after construction, before configure()
Constructed ==
    /\ sampleRate = 0
    /\ bitrateParams = [ rate \in Rates |-> ZeroBitrate ]
    /\ modulationStatus = [ rate \in Rates |-> ZeroModulation ]
    /\ symbolStatus = ZeroSymbol
    /\ streamStatus = ZeroStream
    /\ frameStatus = ZeroFrame
    /\ protocolStatus = ZeroProtocol
    /\ lastFrameEnd = 0
    /\ chainedFlags = 0
    /\ signalClock = 0
    /\ signalData = << >>
    /\ powerAverage = 0
    /\ bitrate = NULL
    /\ modulation = NULL
    /\ frames = << >>
    /\ detected = FALSE

DoConfigure == \E rate0 \in SampleRates : Configure(rate0)

\* ------------------------------------------------------------ free-running source

\* any sample value at any clock, the carrier at full power
Init == Constructed /\ tx = 0

DoDetect ==
    /\ signalClock < MaxClock
    /\ \E sample \in SignalLevels : Detect(sample, FullPower)

DoDecode ==
    /\ signalClock < MaxClock
    /\ \E sample \in SignalLevels : DecodeSample(sample, FullPower)

Next == DoConfigure \/ DoDetect \/ DoDecode \/ DecodeExhausted

Spec == Init /\ [][Next]_vars

\* a source that never modulates deeper than the minimum threshold
ShallowDetect ==
    /\ signalClock < MaxClock
    /\ \E sample \in ShallowLevels : Detect(sample, FullPower)

NextShallow == DoConfigure \/ ShallowDetect

SpecShallow == Init /\ [][NextShallow]_vars

\* sample rates giving fewer than 8 samples per 106k symbol (4 and 6)
LowSampleRates == {423750, 635625}

ConfigureLow == \E rate0 \in LowSampleRates \cup SampleRates : Configure(rate0)

NextLow == ConfigureLow \/ ShallowDetect

SpecLow == Init /\ [][NextLow]_vars

\* ------------------------------------------------------------ scripted source

\* A script is what a reader transmits, one level per cell (a cell is one
\* symbol period, period1 samples), followed by `free` cells the source
\* chooses freely (each modulated or unmodulated).  One sample of the script
\* may be disturbed: `glitchAt` is its clock (0: none), `glitchLevel` its
\* value and `glitchPower` the power average at that clock.  Between the
\* cells and the free cells a script may have `fine` samples the source
\* chooses one by one, and `tail` cells after them.

Repeat(level, n) == [ i \in 1 .. n |-> level ]

Carrier(n) == Repeat(Unmodulated, n)

\* SOF: `low` cells modulated, `high` cells unmodulated
Sof(low, high) == Repeat(Modulated, low) \o Repeat(Unmodulated, high)

\* cell i (0 .. 9) of a character: start bit L, data LSB first, stop bit H
CharCell(byte, i) ==
    IF i = 0 THEN Modulated
    ELSE IF i = 9 THEN Unmodulated
    ELSE IF (byte \div (2 ^ (i - 1))) % 2 = 1 THEN Unmodulated ELSE Modulated

Chars(payload) ==
    [ k \in 1 .. 10 * Len(payload) |->
        CharCell(payload[((k - 1) \div 10) + 1], (k - 1) % 10) ]

\* EOF: ten cells modulated, then the carrier
Eof == Repeat(Modulated, 10) \o Carrier(2)

Script(cells, free) ==
    [ cells |-> cells, free |-> free, glitchAt |-> 0, glitchLevel |-> 0,
      glitchPower |-> FullPower, fine |-> 0, tail |-> << >> ]

\* payload || crc16(payload), low byte first
WithCrc(payload) ==
    LET crc == 65535 - CrcRegister(payload, Len(payload))
    IN  payload \o << crc % 256, crc \div 256 >>

ReqbFrame == << 5, 0, 0, 113, 255 >>
ReqbBadCrc == << 5, 0, 0, 113, 254 >>

\* the clocks a disturbed sample is tried at (fifteen cells of eight samples)
GlitchSpan == 120

\* a payload of n bytes that is no REQB
Filler(n) == [ i \in 1 .. n |-> (7 * i) % 256 ]

\* a frame start, or a frame start and one character, continued as the source
\* chooses; and the REQB of the seed suite with a good and a bad CRC
ShortScripts ==
    << Script(Carrier(1) \o Sof(10, 2), FreeCells),
       Script(Carrier(1) \o Sof(10, 2) \o Chars(<< 165 >>), FreeCells),
       Script(Carrier(1) \o Sof(11, 3) \o Chars(<< 0 >>), FreeCells),
       Script(Carrier(1) \o Sof(10, 2) \o Chars(ReqbFrame) \o Eof, 0),
       Script(Carrier(1) \o Sof(10, 2) \o Chars(ReqbBadCrc) \o Eof, 0) >>

\* a full-size payload and the EOF; a full-size payload with a valid CRC,
\* continued as the source chooses; one character, continued as the source
\* chooses; one character more than the full size
LongScripts ==
    << Script(Carrier(1) \o Sof(10, 2) \o Chars(Filler(DefaultMaxFrameSize)) \o Eof, 0),
       Script(Carrier(1) \o Sof(10, 2)
                \o Chars(WithCrc(Filler(DefaultMaxFrameSize - 2))), FreeTail),
       Script(Carrier(1) \o Sof(10, 2) \o Chars(<< 165 >>), FreeCells),
       Script(Carrier(1) \o Sof(10, 2)
                \o Chars(Filler(DefaultMaxFrameSize + 1)) \o Carrier(2), 0) >>

\* a frame of one character after two cells of carrier, one sample of it
\* beyond the maximum modulation depth (at 60%, or the carrier gone): at each
\* clock up to the first character's start bit
GlitchBase == Script(Carrier(2) \o Sof(10, 2) \o Chars(<< 165 >>) \o Eof, 0)

GlitchScripts ==
    [ k \in 1 .. 2 * GlitchSpan |->
        [ GlitchBase EXCEPT
            !.glitchAt = ((k - 1) % GlitchSpan) + 1,
            !.glitchLevel = IF k <= GlitchSpan THEN Overshoot ELSE 0 ] ]

\* a start of frame disturbed by one sample within the modulation limits (a
\* sample of carrier, or a sample one step deeper), two cells of carrier, and
\* a well-formed REQB
RecoverBase ==
    Script(Carrier(2) \o Sof(10, 2) \o Carrier(2) \o Sof(10, 2)
             \o Chars(ReqbFrame) \o Eof, 0)

RecoverScripts ==
    [ k \in 1 .. 2 * GlitchSpan |->
        [ RecoverBase EXCEPT
            !.glitchAt = ((k - 1) % GlitchSpan) + 1,
            !.glitchLevel = IF k <= GlitchSpan THEN Unmodulated ELSE Deep ] ]

\* a frame of one character after two cells of carrier, the slow power average
\* at or below the power threshold for one sample (the sample itself as sent):
\* at each clock up to the first character's start bit
PowerScripts ==
    [ k \in 1 .. GlitchSpan |->
        [ GlitchBase EXCEPT
            !.glitchAt = k, !.glitchLevel = NULL, !.glitchPower = WeakPower ] ]

\* the samples after a first frame that the source chooses one by one
FineSamples == 16

\* EOF of eleven cells
EofLong == Repeat(Modulated, 11) \o Carrier(2)

\* two frames one after the other, the first ended by an EOF of eleven cells
\* (a REQB and a frame the source continues freely; one character and a
\* REQB); a REQB, and a REQB cut to four bytes or extended to six, continued
\* as the source chooses; two frames, the first ended by an EOF of ten cells;
\* one character, samples chosen one by one, and another character
SessionScripts ==
    << Script(Carrier(1) \o Sof(10, 2) \o Chars(ReqbFrame) \o EofLong
                \o Sof(10, 2) \o Chars(<< 165 >>), FreeCells),
       Script(Carrier(1) \o Sof(10, 2) \o Chars(<< 165 >>) \o EofLong
                \o Sof(10, 2) \o Chars(ReqbFrame) \o Eof, 0),
       Script(Carrier(1) \o Sof(10, 2) \o Chars(ReqbFrame), FreeCells),
       Script(Carrier(1) \o Sof(10, 2) \o Chars(<< 5, 0, 0, 113 >>), FreeCells),
       Script(Carrier(1) \o Sof(10, 2) \o Chars(ReqbFrame \o << 0 >>), FreeCells),
       Script(Carrier(1) \o Sof(10, 2) \o Chars(<< 165 >>) \o Eof
                \o Sof(10, 2) \o Chars(ReqbFrame) \o Eof, 0),
       [ Script(Carrier(1) \o Sof(10, 2) \o Chars(<< 165 >>), 0) EXCEPT
           !.fine = FineSamples,
           !.tail = Carrier(1) \o Chars(<< 165 >>) \o Carrier(2) ] >>

Scripts ==
    ShortScripts \o LongScripts \o GlitchScripts \o RecoverScripts \o SessionScripts
        \o PowerScripts

\* samples in a script, for the configured symbol period
ScriptLength(script) ==
    (Len(script.cells) + Len(script.tail) + script.free)
        * bitrateParams[r106k].period1SymbolSamples + script.fine

\* the (sample, power) pairs the script allows at clock
ScriptInputs(script, clock) ==
    LET period1 == bitrateParams[r106k].period1SymbolSamples
        head == Len(script.cells) * period1
        cell == ((clock - 1) \div period1) + 1
        after == clock - head - script.fine
        tailCell == ((after - 1) \div period1) + 1
    IN  IF clock = script.glitchAt
        THEN { << IF script.glitchLevel # NULL THEN script.glitchLevel
                  ELSE IF clock <= head THEN script.cells[cell]
                  ELSE Unmodulated,
                  script.glitchPower >> }
        ELSE IF clock <= head
        THEN { << script.cells[cell], FullPower >> }
        ELSE IF clock <= head + script.fine
        THEN { << level, FullPower >> : level \in CellLevels }
        ELSE IF tailCell <= Len(script.tail)
        THEN { << script.tail[tailCell], FullPower >> }
        ELSE IF (after - 1) % period1 = 0
        THEN { << level, FullPower >> : level \in CellLevels }
        ELSE { << SignalAt(signalData, 0), FullPower >> }

TxDetect ==
    /\ tx # 0
    /\ signalClock < ScriptLength(Scripts[tx])
    /\ \E in \in ScriptInputs(Scripts[tx], signalClock + 1) : Detect(in[1], in[2])

TxDecode ==
    /\ tx # 0
    /\ signalClock < ScriptLength(Scripts[tx])
    /\ \E in \in ScriptInputs(Scripts[tx], signalClock + 1) : DecodeSample(in[1], in[2])

NextTx == DoConfigure \/ TxDetect \/ TxDecode \/ DecodeExhausted

InitFrame == Constructed /\ tx \in 1 .. Len(ShortScripts)

SpecFrame == InitFrame /\ [][NextTx]_vars

InitLong ==
    Constructed /\ tx \in (Len(ShortScripts) + 1) .. (Len(ShortScripts) + Len(LongScripts))

SpecLong == InitLong /\ [][NextTx]_vars

GlitchFirst == Len(ShortScripts) + Len(LongScripts) + 1
RecoverFirst == GlitchFirst + Len(GlitchScripts)

InitGlitch == Constructed /\ tx \in GlitchFirst .. (RecoverFirst - 1)

SpecGlitch == InitGlitch /\ [][NextTx]_vars

SessionFirst == RecoverFirst + Len(RecoverScripts)

InitRecover == Constructed /\ tx \in RecoverFirst .. (SessionFirst - 1)

SpecRecover == InitRecover /\ [][NextTx]_vars

PowerFirst == SessionFirst + Len(SessionScripts)

InitSession == Constructed /\ tx \in SessionFirst .. (PowerFirst - 1)

SpecSession == InitSession /\ [][NextTx]_vars

InitPower == Constructed /\ tx \in PowerFirst .. Len(Scripts)

SpecPower == InitPower /\ [][NextTx]_vars

\* ------------------------------------------------------------ CRC source

\* ISO/IEC 13239 CRC-16, bit by bit: polynomial x^16 + x^12 + x^5 + 1 taken
\* least significant bit first (0x8408), register preset to 0xFFFF, result
\* complemented
IsoCrcBit(crc) == IF crc % 2 = 1 THEN Xor(crc \div 2, 33800) ELSE crc \div 2

IsoCrcByte(crc, byte) ==
    IsoCrcBit(IsoCrcBit(IsoCrcBit(IsoCrcBit(
      IsoCrcBit(IsoCrcBit(IsoCrcBit(IsoCrcBit(Xor(crc, byte)))))))))

RECURSIVE IsoCrcRegister(_, _)
IsoCrcRegister(payload, n) ==
    IF n = 0 THEN 65535 ELSE IsoCrcByte(IsoCrcRegister(payload, n - 1), payload[n])

IsoCrc16(payload) == 65535 - IsoCrcRegister(payload, Len(payload))

\* payload || crc, low byte first
IsoTrailer(payload) ==
    payload \o << IsoCrc16(payload) % 256, IsoCrc16(payload) \div 256 >>

\* the longest payload tried, and the byte values it is made of
MaxCrcPayload == 2
CrcBytes == {0, 5, 165}

CrcPayloads ==
    UNION { [ 1 .. n -> CrcBytes ] : n \in 1 .. MaxCrcPayload }

\* byte k of the frame changed by d (modulo 256)
ChangeByte(frame, k, d) == [ frame EXCEPT ![k] = (@ + d) % 256 ]

\* a payload with its CRC, and the same with one trailer byte changed to any
\* other value
CrcFrames ==
    { IsoTrailer(payload) : payload \in CrcPayloads }
      \cup { ChangeByte(IsoTrailer(payload), Len(payload) + k, d) :
               payload \in CrcPayloads, k \in 1 .. 2, d \in 1 .. 255 }

\* a configured decoder that confirmed a start of frame and framed the bytes
\* of one of the frames above
InitCrc ==
    \E rate0 \in SampleRates, payload \in CrcFrames :
        /\ sampleRate = rate0
        /\ bitrateParams = [ rate \in Rates |-> ConfigureBitrate(rate0, rate) ]
        /\ modulationStatus = [ rate \in Rates |-> ZeroModulation ]
        /\ symbolStatus = ZeroSymbol
        /\ streamStatus = [ buffer |-> payload, bytes |-> Len(payload),
                            data |-> 0, bits |-> 9 ]
        /\ frameStatus =
             [ ZeroFrame EXCEPT
                 !.frameType = PollFrame,
                 !.startUpGuardTime = ConfigureProtocol(rate0).startUpGuardTime,
                 !.frameWaitingTime = ConfigureProtocol(rate0).frameWaitingTime,
                 !.frameGuardTime = ConfigureProtocol(rate0).frameGuardTime,
                 !.requestGuardTime = ConfigureProtocol(rate0).requestGuardTime ]
        /\ protocolStatus = ConfigureProtocol(rate0)
        /\ lastFrameEnd = 0
        /\ chainedFlags = 0
        /\ signalClock = 0
        /\ signalData = << >>
        /\ powerAverage = 0
        /\ bitrate = r106k
        /\ modulation = r106k
        /\ frames = << >>
        /\ detected = FALSE
        /\ tx = 0

\* the frame is built of the stream buffer, processed and appended, as at the
\* end-of-frame symbol
ProcessBuffer ==
    /\ bitrate # NULL
    /\ frameStatus.frameType = PollFrame
    /\ EmitsFrame(streamStatus)
    /\ LET b == bitrateParams[bitrate]
           fs == [ frameStatus EXCEPT !.frameEnd = symbolStatus.end ]
           response == Response(streamStatus, fs, symbolStatus, PatternL,
                                protocolStatus)
       IN  /\ modulationStatus' =
                [ modulationStatus EXCEPT
                    ![modulation] = ClearSymbolTimes(modulationStatus[modulation]) ]
           /\ streamStatus' = ZeroStream
           /\ frames' = Append(frames, ProcessFrame(response))
           /\ protocolStatus' = ProcessProtocol(protocolStatus, response.payload)
           /\ frameStatus' = ProcessStatus(fs, response.payload, b)
           /\ chainedFlags' = IF IsREQB(response.payload) THEN 0 ELSE chainedFlags
           /\ lastFrameEnd' = fs.frameEnd
           /\ bitrate' = NULL
           /\ modulation' = NULL
    /\ UNCHANGED << sampleRate, bitrateParams, symbolStatus, signalClock,
                    signalData, powerAverage, detected, tx >>

SpecCrc == InitCrc /\ [][ProcessBuffer]_vars

\* ------------------------------------------------------------ properties

\* the frame a step appends
Emits == Len(frames') = Len(frames) + 1 /\ SubSeq(frames', 1, Len(frames)) = frames
Emitted == frames'[Len(frames')]

\* the step is a call of detect() / a pass of decode() on one more sample
DetectStep == sampleRate # 0 /\ bitrate = NULL /\ signalClock' = signalClock + 1
DecodeStep ==
    /\ sampleRate # 0 /\ bitrate # NULL /\ frameStatus.frameType = PollFrame
    /\ signalClock' = signalClock + 1

\* the pattern the symbol routine returns in a decode step
StepPattern ==
    TrackSymbol(modulationStatus[modulation], bitrateParams[bitrate],
                signalClock', signalData', powerAverage').symbol.pattern

\* the framer's three terminal conditions, on the pattern p
IsFrameEnd(p) == streamStatus.bits = 9 /\ streamStatus.data = 0 /\ p = PatternL
IsStreamError(p) ==
    \/ streamStatus.bits = 0 /\ p = PatternH
    \/ streamStatus.bits = 9 /\ p = PatternL /\ streamStatus.data # 0
IsSizeLimit(p) ==
    p > NoPattern /\ streamStatus.bytes = protocolStatus.maxFrameSize

\* C1: the frame list changes only by one frame appended in a decode step
\* whose symbol meets a terminal condition (EOF, stream error, size limit)
\* while streamStatus.bytes > 0; a terminal condition met with bytes = 0
\* appends nothing and resets the modulation (selectors null, search stage
\* BEGIN with no window, frame type and bounds cleared, stream cleared); no
\* detect() step appends a frame; so every frame has at least one byte.
C1_EmitOnlyAtTerminalWithBytes ==
    [][ /\ frames' # frames =>
            /\ Emits /\ DecodeStep
            /\ IsFrameEnd(StepPattern) \/ IsStreamError(StepPattern)
                 \/ IsSizeLimit(StepPattern)
            /\ streamStatus.bytes > 0
            /\ Len(Emitted.payload) >= 1
        /\ ( /\ DecodeStep /\ streamStatus.bytes = 0
             /\ IsFrameEnd(StepPattern) \/ IsStreamError(StepPattern)
                  \/ IsSizeLimit(StepPattern) ) =>
            /\ frames' = frames
            /\ bitrate' = NULL /\ modulation' = NULL
            /\ \A rate \in Rates :
                  /\ modulationStatus'[rate].searchStage = SOF_BEGIN
                  /\ modulationStatus'[rate].searchStartTime = 0
                  /\ modulationStatus'[rate].searchEndTime = 0
                  /\ modulationStatus'[rate].detectorPeek = 0
            /\ frameStatus'.frameType = 0 /\ frameStatus'.frameStart = 0
            /\ frameStatus'.frameEnd = 0
            /\ streamStatus' = ZeroStream
        /\ DetectStep => frames' = frames
        /\ \A i \in DOMAIN frames' : Len(frames'[i].payload) >= 1 ]_vars

\* a frame of one byte was emitted, and a start of frame followed by an
\* unmodulated carrier (a terminal condition with no byte) emitted nothing
C1_Witness == tx = 2 /\ Len(frames) = 1 /\ Len(frames[1].payload) = 1

\* C2: in every reachable state streamStatus.bits is in 0 .. 9 and
\* streamStatus.bytes is at most protocolStatus.maxFrameSize; the stream
\* buffer holds exactly `bytes` bytes, so each was stored below maxFrameSize.
C2_StreamBounds ==
    /\ streamStatus.bits \in 0 .. 9
    /\ streamStatus.bytes <= protocolStatus.maxFrameSize
    /\ Len(streamStatus.buffer) = streamStatus.bytes

\* the stream buffer is full, at the size limit
C2_Witness ==
    /\ streamStatus.bytes = DefaultMaxFrameSize
    /\ streamStatus.bytes = protocolStatus.maxFrameSize

\* C3: a frame emitted without the Truncated flag has 1 .. maxFrameSize bytes
\* and was ended by a PatternL symbol met at the stop-bit position (bits = 9)
\* with the data accumulator at zero: the tenth PatternL of a character slot.
C3_UntruncatedEndsAtEof ==
    [][ (Emits /\ ~HasFrameFlags(Emitted.flags, Truncated)) =>
            /\ Len(Emitted.payload) \in 1 .. protocolStatus.maxFrameSize
            /\ streamStatus.bits = 9
            /\ streamStatus.data = 0
            /\ symbolStatus'.pattern = PatternL
            /\ symbolStatus'.value = 0 ]_vars

\* the REQB was emitted whole and unflagged
C3_Witness ==
    /\ Len(frames) = 1
    /\ frames[1].payload = ReqbFrame
    /\ ~HasFrameFlags(frames[1].flags, Truncated)

\* C4: an emitted frame carries the Truncated flag exactly when the symbol
\* that ended it was a PatternH at the start-bit position, a PatternL at the
\* stop-bit position over a non-zero accumulator, or any symbol arriving with
\* bytes = maxFrameSize; the frame holds the bytes stored so far.
C4_TruncatedIffErrorOrLimit ==
    [][ Emits =>
            /\ HasFrameFlags(Emitted.flags, Truncated)
                  <=> ( \/ IsStreamError(symbolStatus'.pattern)
                        \/ IsSizeLimit(symbolStatus'.pattern) )
            /\ Emitted.payload = streamStatus.buffer
            /\ Emitted.frameType = PollFrame ]_vars

\* frames ended each way: by a stream error after one byte, by the size
\* limit at 256 bytes
C4_Witness ==
    /\ Len(frames) = 1
    /\ HasFrameFlags(frames[1].flags, Truncated)
    /\ Len(frames[1].payload) = DefaultMaxFrameSize

\* the script of a full-size payload followed by the EOF
FullFrameScript == Len(ShortScripts) + 1

\* C5: a frame of exactly maxFrameSize (256) complete characters followed by
\* the EOF is emitted with all 256 bytes and without the Truncated flag.
C5_FullFrameUntruncated ==
    tx = FullFrameScript =>
        \A i \in DOMAIN frames :
            /\ Len(frames[i].payload) = DefaultMaxFrameSize
            /\ ~HasFrameFlags(frames[i].flags, Truncated)

\* what the decoder does with that input: the first symbol of the EOF meets
\* bytes = maxFrameSize at bit position 0 and ends the frame as truncated
C5_Witness ==
    /\ tx = FullFrameScript
    /\ Len(frames) = 1
    /\ frames[1].payload = Filler(DefaultMaxFrameSize)
    /\ HasFrameFlags(frames[1].flags, Truncated)

\* C6 as stated: when a symbol arrives after maxFrameSize bytes were stored,
\* the frame has 256 bytes, flags equal to Truncated, phase ApplicationFrame.
C6_FlagsEqualTruncated ==
    [][ (Emits /\ streamStatus.bytes = DefaultMaxFrameSize) =>
            /\ Len(Emitted.payload) = DefaultMaxFrameSize
            /\ Emitted.flags = Truncated
            /\ Emitted.phase = ApplicationFrame ]_vars

\* C6 as amended: when a symbol arrives after maxFrameSize bytes were stored,
\* the frame has 256 bytes, phase ApplicationFrame, and its flags are
\* Truncated together with CrcError, unless the last two of the 256 bytes
\* are the CRC of the first 254, when they are Truncated alone.
C6_TruncatedAndCrcChecked ==
    [][ (Emits /\ streamStatus.bytes = DefaultMaxFrameSize) =>
            /\ Len(Emitted.payload) = DefaultMaxFrameSize
            /\ Emitted.payload = streamStatus.buffer
            /\ HasFrameFlags(Emitted.flags, Truncated)
            /\ Emitted.flags =
                 IF Emitted.payload = WithCrc(SubSeq(Emitted.payload, 1,
                                                     DefaultMaxFrameSize - 2))
                 THEN Truncated ELSE Truncated + CrcError
            /\ Emitted.phase = ApplicationFrame ]_vars

\* 257 characters were sent: 256 bytes came out, flagged Truncated and CrcError
C6_Witness ==
    /\ tx = Len(ShortScripts) + Len(LongScripts)
    /\ Len(frames) = 1
    /\ Len(frames[1].payload) = DefaultMaxFrameSize
    /\ frames[1].flags = Truncated + CrcError
    /\ frames[1].phase = ApplicationFrame

\* The three peaks of a SOF, read from the 106k status around the step that
\* confirms it.  BEGIN leaves symbolStartTime = P1 - period8 when it hands
\* over to IDLE, IDLE leaves searchStartTime = P2 + 2 * period1 - period2 when
\* it hands over to END, and neither field changes until END closes; END
\* leaves its peak in searchPeakTime.
SofP1 == modulationStatus[r106k].symbolStartTime
           + bitrateParams[r106k].period8SymbolSamples
SofP2 == modulationStatus[r106k].searchStartTime
           - 2 * bitrateParams[r106k].period1SymbolSamples
           + bitrateParams[r106k].period2SymbolSamples
SofP3 == modulationStatus'[r106k].searchPeakTime

\* C7: whenever detect() confirms a SOF, P2 lies between P1 + 10 * period1
\* - period2 and P1 + 11 * period1 + period2, and P3 lies between
\* P2 + 2 * period1 - period2 and P2 + 3 * period1 + period2.
C7_SofTimingWindows ==
    [][ (DetectStep /\ detected') =>
          LET period1 == bitrateParams[r106k].period1SymbolSamples
              period2 == bitrateParams[r106k].period2SymbolSamples
          IN  /\ SofP1 + 10 * period1 - period2 <= SofP2
              /\ SofP2 <= SofP1 + 11 * period1 + period2
              /\ SofP2 + 2 * period1 - period2 <= SofP3
              /\ SofP3 <= SofP2 + 3 * period1 + period2 ]_vars

\* the depth of the sample a detect() step reads exceeds the maximum threshold
OvershootStep ==
    /\ DetectStep
    /\ powerAverage' > powerLevelThreshold
    /\ DeepAbove(powerAverage',
                 SignalAt(signalData', bitrateParams[r106k].offsetSignalIndex),
                 maximumModulationThreshold)

\* the END stage closes its window with a recorded peak
EndClosesWithPeak ==
    /\ DetectStep
    /\ powerAverage' > powerLevelThreshold
    /\ ~OvershootStep
    /\ modulationStatus[r106k].searchStage = SOF_END
    /\ modulationStatus'[r106k].searchStage = SOF_BEGIN
    /\ modulationStatus'[r106k].searchPeakTime # 0

Glitched == tx # 0 /\ Scripts[tx].glitchAt \in 1 .. signalClock'

\* the clocks of the SOF of GlitchBase: cells 3 .. 14
SofSamples ==
    (2 * bitrateParams[r106k].period1SymbolSamples + 1)
      .. (14 * bitrateParams[r106k].period1SymbolSamples)

\* C9: a detect() step whose sample is deeper than maximumModulationThreshold
\* returns false and leaves the stage at BEGIN with no search window and no
\* held peak, appending nothing; a SOF confirmed later has its first falling
\* edge P1 after the overshoot; and a SOF with an overshooting sample yields
\* no frame.
C9_OvershootAbortsSof ==
    [][ /\ OvershootStep =>
              /\ ~detected'
              /\ modulationStatus'[r106k].searchStage = SOF_BEGIN
              /\ modulationStatus'[r106k].searchStartTime = 0
              /\ modulationStatus'[r106k].searchEndTime = 0
              /\ modulationStatus'[r106k].detectorPeek = 0
              /\ bitrate' = NULL /\ modulation' = NULL
              /\ frames' = frames
        /\ (DetectStep /\ detected' /\ Glitched) => SofP1 > Scripts[tx].glitchAt
        /\ (sampleRate # 0 /\ tx # 0 /\ Scripts[tx].glitchAt \in SofSamples)
              => frames' = << >> ]_vars

\* the overshoot has just hit a SOF whose low level the IDLE stage was
\* timing (IDLE had set symbolStartTime): the search is back at BEGIN
C9_Witness ==
    /\ sampleRate # 0 /\ tx # 0
    /\ Scripts[tx].glitchAt = signalClock
    /\ signalClock \in SofSamples
    /\ SignalAt(signalData, 0) = Overshoot
    /\ modulationStatus[r106k].symbolStartTime # 0
    /\ modulationStatus[r106k].searchStage = SOF_BEGIN
    /\ ~detected

\* C10: from a freshly configured decoder, while every sample's depth is at
\* or below minimumModulationThreshold the SOF search stays at BEGIN with no
\* window and no peak, detect() returns false, no rate is selected and no
\* frame is emitted, whatever the edge detector reads.
C10_ShallowNeverDetects ==
    /\ \A rate \in Rates :
          /\ modulationStatus[rate].searchStage = SOF_BEGIN
          /\ modulationStatus[rate].searchStartTime = 0
          /\ modulationStatus[rate].searchEndTime = 0
          /\ modulationStatus[rate].searchPeakTime = 0
          /\ modulationStatus[rate].detectorPeek = 0
    /\ ~detected
    /\ bitrate = NULL /\ modulation = NULL
    /\ frameStatus.frameType = 0
    /\ frames = << >>

\* a falling edge to the minimum depth, above the edge threshold
C10_Witness ==
    /\ sampleRate # 0
    /\ SignalAt(signalData, 0) = Shallow
    /\ EdgeAbove(EdgeDetector(modulationStatus[r106k], bitrateParams[r106k]),
                 bitrateParams[r106k])

\* the detect() step reaches case SOF_IDLE of the rate (the power is above the
\* gate, the sample within the maximum depth) with the clock outside the
\* search window and an edge of magnitude above 0.001
IdleSpurious(rate) ==
    LET b == bitrateParams[rate]
        m == Integrate(modulationStatus[rate], b, signalData')
    IN  /\ DetectStep
        /\ powerAverage' > powerLevelThreshold
        /\ ~DeepAbove(powerAverage', SignalAt(signalData', b.offsetSignalIndex),
                      maximumModulationThreshold)
        /\ m.searchStage = SOF_IDLE
        /\ ~(signalClock' > m.searchStartTime /\ signalClock' <= m.searchEndTime)
        /\ EdgeAbove(Abs(EdgeDetector(m, b)), b)

\* the transmission is one of the disturbed starts of frame followed by a
\* well-formed REQB, and has been read to its last sample
RecoverDone ==
    /\ tx >= RecoverFirst
    /\ sampleRate # 0
    /\ signalClock = ScriptLength(Scripts[tx])

\* C11: in stage IDLE a sample outside the search window with an edge
\* magnitude above 0.001 makes detect() return false and leaves the rate in
\* stage BEGIN with searchStartTime, searchEndTime, searchPeakTime,
\* detectorPeek, symbolStartTime and symbolEndTime all zero; the step appends
\* no frame and selects no bitrate; and once a well-formed REQB has followed
\* the disturbed start of frame, the frame list holds exactly that REQB.
C11_SpuriousEdgeResetsSearch ==
    [][ /\ \A rate \in DetectRates : IdleSpurious(rate) =>
              /\ ~detected'
              /\ bitrate' = NULL /\ modulation' = NULL
              /\ frames' = frames
              /\ modulationStatus'[rate].searchStage = SOF_BEGIN
              /\ modulationStatus'[rate].searchStartTime = 0
              /\ modulationStatus'[rate].searchEndTime = 0
              /\ modulationStatus'[rate].searchPeakTime = 0
              /\ modulationStatus'[rate].detectorPeek = 0
              /\ modulationStatus'[rate].symbolStartTime = 0
              /\ modulationStatus'[rate].symbolEndTime = 0
        /\ RecoverDone' =>
              /\ Len(frames') = 1
              /\ frames'[1].payload = ReqbFrame
              /\ frames'[1].flags = 0 ]_vars

\* the start of frame was disturbed by a sample of carrier in its third cell
\* (the search was in stage IDLE, before its window), and the REQB that
\* followed was decoded
C11_Witness ==
    /\ tx = RecoverFirst + 3 * 8
    /\ Scripts[tx].glitchAt = 3 * 8 + 1
    /\ Scripts[tx].glitchLevel = Unmodulated
    /\ RecoverDone
    /\ Len(frames) = 1
    /\ frames[1].payload = ReqbFrame

\* C12: every frame appended is a poll frame classified by its first byte and
\* its length: phase = SelectionFrame and lastCommand = 0x05 if and only if
\* byte 0 is 0x05 and the payload has exactly 5 bytes; every other frame gets
\* phase = ApplicationFrame and leaves lastCommand as it was; with the
\* Truncated or CrcError flag or without.
C12_ClassifiedByFirstByteAndLength ==
    [][ Emits =>
          LET payload == Emitted.payload
              reqb == Len(payload) = 5 /\ payload[1] = 5
          IN  /\ Emitted.frameType = PollFrame
              /\ Len(payload) >= 1
              /\ (Emitted.phase = SelectionFrame /\ frameStatus'.lastCommand = 5)
                    <=> reqb
              /\ ~reqb => /\ Emitted.phase = ApplicationFrame
                          /\ frameStatus'.lastCommand = frameStatus.lastCommand ]_vars

\* after a REQB classified SelectionFrame, a second frame flagged Truncated and
\* CrcError was classified ApplicationFrame and lastCommand kept at 0x05
C12_Witness ==
    /\ Len(frames) = 2
    /\ frames[1].payload = ReqbFrame
    /\ frames[1].phase = SelectionFrame
    /\ frames[2].payload = << 165 >>
    /\ frames[2].phase = ApplicationFrame
    /\ HasFrameFlags(frames[2].flags, Truncated)
    /\ HasFrameFlags(frames[2].flags, CrcError)
    /\ frameStatus.lastCommand = 5

\* the last two bytes of the payload are not the complemented CRC register of
\* the bytes before them, low byte first; or there are no bytes before them
CrcMismatch(payload) ==
    \/ Len(payload) <= 2
    \/ payload # WithCrc(SubSeq(payload, 1, Len(payload) - 2))

\* C13: a frame whose CRC does not match is appended all the same, with the
\* CrcError flag; an appended frame carries CrcError if and only if its CRC
\* does not match, and a frame of one or two bytes never matches, so every
\* appended frame of at most two bytes carries CrcError.
C13_CrcErrorIffMismatch ==
    [][ Emits =>
          /\ HasFrameFlags(Emitted.flags, CrcError) <=> CrcMismatch(Emitted.payload)
          /\ HasFrameFlags(Emitted.flags, CrcError) <=> ~checkCrc(Emitted.payload)
          /\ Len(Emitted.payload) <= 2 =>
                ~checkCrc(Emitted.payload) /\ HasFrameFlags(Emitted.flags, CrcError)
        ]_vars

\* the REQB with a wrong trailer byte was appended, flagged CrcError only
C13_Witness ==
    /\ Len(frames) = 1
    /\ frames[1].payload = ReqbBadCrc
    /\ frames[1].flags = CrcError

\* C14: for every non-empty payload of the bounded set, the frame made of the
\* payload and its ISO/IEC 13239 CRC-16 (preset 0xFFFF, complemented, low
\* byte first) passes checkCrc and is appended without CrcError; the same
\* frame with either trailer byte changed fails checkCrc and carries CrcError.
C14_CrcRoundTrip ==
    \A i \in DOMAIN frames :
        LET frame == frames[i].payload
            payload == SubSeq(frame, 1, Len(frame) - 2)
        IN  /\ Len(frame) >= 3
            /\ frame = IsoTrailer(payload) =>
                  checkCrc(frame) /\ ~HasFrameFlags(frames[i].flags, CrcError)
            /\ frame # IsoTrailer(payload) =>
                  ~checkCrc(frame) /\ HasFrameFlags(frames[i].flags, CrcError)

\* the payload 05 00 with its CRC was appended unflagged
C14_Witness ==
    /\ tx = 0
    /\ signalClock = 0
    /\ Len(frames) = 1
    /\ frames[1].payload = IsoTrailer(<< 5, 0 >>)
    /\ frames[1].flags = 0

\* the REQB transmissions of the short scripts: good CRC, last byte FE
ReqbScript == Len(ShortScripts) - 1
ReqbBadScript == Len(ShortScripts)

\* the transmission has been read to its last sample
ScriptDone == sampleRate # 0 /\ tx # 0 /\ signalClock = ScriptLength(Scripts[tx])

\* C15: the poll frame 05 00 00 71 FF ended by an EOF is appended with phase
\* SelectionFrame and flags 0, 71 FF being the trailer the byte-wise update
\* of checkCrc yields for 05 00 00; the same frame with last byte FE is
\* appended with 5 bytes, phase SelectionFrame and flags equal to CrcError.
C15_ReqbGoodAndBadCrc ==
    /\ 65535 - CrcRegister(<< 5, 0, 0 >>, 3) = 113 + 256 * 255
    /\ (ScriptDone /\ tx = ReqbScript) =>
          /\ Len(frames) = 1
          /\ frames[1].frameType = PollFrame
          /\ frames[1].payload = << 5, 0, 0, 113, 255 >>
          /\ frames[1].phase = SelectionFrame
          /\ frames[1].flags = 0
    /\ (ScriptDone /\ tx = ReqbBadScript) =>
          /\ Len(frames) = 1
          /\ frames[1].frameType = PollFrame
          /\ frames[1].payload = << 5, 0, 0, 113, 254 >>
          /\ frames[1].phase = SelectionFrame
          /\ frames[1].flags = CrcError
    /\ \A i \in DOMAIN frames :
          ~HasFrameFlags(frames[i].flags, Truncated) =>
             /\ frames[i].payload = << 5, 0, 0, 113, 255 >> =>
                   frames[i].phase = SelectionFrame /\ frames[i].flags = 0
             /\ frames[i].payload = << 5, 0, 0, 113, 254 >> =>
                   frames[i].phase = SelectionFrame /\ frames[i].flags = CrcError

\* both transmissions were read to the end: this is the one with last byte FE
C15_Witness ==
    /\ ScriptDone
    /\ tx = ReqbBadScript
    /\ Scripts[tx].cells = Carrier(1) \o Sof(10, 2) \o Chars(ReqbBadCrc) \o Eof
    /\ Len(frames) = 1
    /\ Len(frames[1].payload) = 5
    /\ frames[1].sampleEnd > frames[1].sampleStart

\* the decode step calls resetModulation(): a terminal condition met with no
\* byte in the stream buffer
ResetStep ==
    /\ DecodeStep
    /\ Terminal(streamStatus, StepPattern, protocolStatus)
    /\ ~EmitsFrame(streamStatus)

\* the modulation status of the rate as resetModulation() finds it
BeforeReset(rate) ==
    IF rate = modulation
    THEN TrackSymbol(modulationStatus[modulation], bitrateParams[bitrate],
                     signalClock', signalData', powerAverage').mod
    ELSE modulationStatus[rate]

\* what resetModulation() does to the stage, the window, the held peak, the
\* stream, the symbol, the frame bounds and the selectors
ResetClears ==
    /\ \A rate \in Rates :
          /\ modulationStatus'[rate].searchStage = SOF_BEGIN
          /\ modulationStatus'[rate].searchStartTime = 0
          /\ modulationStatus'[rate].searchEndTime = 0
          /\ modulationStatus'[rate].detectorPeek = 0
    /\ streamStatus' = ZeroStream
    /\ symbolStatus' = ZeroSymbol
    /\ frameStatus'.frameType = 0
    /\ frameStatus'.frameStart = 0
    /\ frameStatus'.frameEnd = 0
    /\ bitrate' = NULL
    /\ modulation' = NULL

TerminalStep == DecodeStep /\ Terminal(streamStatus, StepPattern, protocolStatus)

\* C17: after every terminal frame outcome, a frame appended as well as a
\* frame dropped, every rate is in stage BEGIN with searchStartTime,
\* searchEndTime and searchPeakTime zero, streamStatus is cleared, frameType,
\* frameStart and frameEnd are zero and the bitrate and the modulation are
\* detached: the state resetModulation is said to produce.
C17_CleanAfterTerminal ==
    [][ TerminalStep =>
          /\ \A rate \in Rates :
                /\ modulationStatus'[rate].searchStage = SOF_BEGIN
                /\ modulationStatus'[rate].searchStartTime = 0
                /\ modulationStatus'[rate].searchEndTime = 0
                /\ modulationStatus'[rate].searchPeakTime = 0
          /\ streamStatus' = ZeroStream
          /\ frameStatus'.frameType = 0
          /\ frameStatus'.frameStart = 0
          /\ frameStatus'.frameEnd = 0
          /\ bitrate' = NULL
          /\ modulation' = NULL ]_vars

\* the transmission of one character, an EOF of ten cells, two cells of
\* carrier and a well-formed REQB was read to the end, and the REQB is not in
\* the frame list
C17_Witness ==
    /\ ScriptDone
    /\ tx = PowerFirst - 2
    /\ Scripts[tx].cells = Carrier(1) \o Sof(10, 2) \o Chars(<< 165 >>) \o Eof
                             \o Sof(10, 2) \o Chars(ReqbFrame) \o Eof
    /\ Len(frames) = 1
    /\ frames[1].payload = << 165 >>

\* C18: configure(sampleRate) fails, leaving the decoder unconfigured, whenever
\* period1 (the samples per 106k symbol) would be below 8: a configured
\* decoder has period1 >= 8.
C18_ConfigureRejectsLowRate ==
    sampleRate # 0 => bitrateParams[r106k].period1SymbolSamples >= 8

\* configure(423750) returned with the decoder configured for 4 samples per
\* symbol, and detect() runs on it
C18_Witness ==
    /\ sampleRate = 423750
    /\ bitrateParams[r106k].period1SymbolSamples = 4
    /\ protocolStatus.maxFrameSize = DefaultMaxFrameSize
    /\ signalClock > 0

\* C19: frames are appended in strict frame-start order: a frame appended
\* after another has a strictly greater sampleStart, over any run of
\* detect/decode steps.
C19_StrictFrameStartOrder ==
    [][ Emits =>
          /\ \A i \in DOMAIN frames : frames[i].sampleStart < Emitted.sampleStart
          /\ \A i \in 1 .. (Len(frames') - 1) :
                frames'[i].sampleStart < frames'[i + 1].sampleStart ]_vars

\* two frames were appended one after the other, the second started by an
\* edge met while the first was still being decoded
C19_Witness ==
    /\ Len(frames) = 2
    /\ frames[1].sampleStart < frames[2].sampleStart
    /\ frames[2].sampleStart < frames[1].sampleEnd

\* C20: every frame appended has sampleStart <= sampleEnd, sampleStart being
\* the frameStart published when the SOF was confirmed and sampleEnd the end
\* of the symbol that ended the frame.
C20_StartNotAfterEnd ==
    [][ /\ Emits =>
              /\ Emitted.sampleStart = frameStatus.frameStart
              /\ Emitted.sampleEnd = symbolStatus'.end
              /\ Emitted.sampleStart <= Emitted.sampleEnd
        /\ (DetectStep /\ detected') =>
              frameStatus'.frameStart
                = modulationStatus'[bitrate'].symbolStartTime
                    - bitrateParams[bitrate'].symbolDelayDetect
        /\ DecodeStep => frameStatus'.frameStart \in {frameStatus.frameStart, 0}
        /\ \A i \in DOMAIN frames' : frames'[i].sampleStart <= frames'[i].sampleEnd
      ]_vars

\* a frame started at the first falling edge of its SOF and ended at the end
\* of its last EOF symbol
C20_Witness ==
    /\ tx = SessionFirst + 2
    /\ Len(frames) = 1
    /\ frames[1].payload = ReqbFrame
    /\ frames[1].flags = 0
    /\ frames[1].sampleStart = 8
    /\ frames[1].sampleEnd = 8 + (12 + 50 + 10) * 8

\* C21: after each frame appended, REQB or other, guardEnd = sampleEnd +
\* frameGuardTime + symbolDelayDetect >= sampleEnd + frameGuardTime, waitingEnd
\* = sampleEnd + frameWaitingTime + symbolDelayDetect >= guardEnd, the next
\* frame type expected is ListenFrame, lastFrameEnd is the frame's sampleEnd
\* and frameStart and frameEnd are cleared.
C21_ResponseTimesAfterFrame ==
    [][ Emits =>
          LET delay == bitrateParams[bitrate].symbolDelayDetect
          IN  /\ frameStatus'.guardEnd
                   = Emitted.sampleEnd + frameStatus'.frameGuardTime + delay
              /\ frameStatus'.waitingEnd
                   = Emitted.sampleEnd + frameStatus'.frameWaitingTime + delay
              /\ frameStatus'.guardEnd >= Emitted.sampleEnd + frameStatus'.frameGuardTime
              /\ frameStatus'.waitingEnd >= frameStatus'.guardEnd
              /\ frameStatus'.frameGuardTime > 0
              /\ frameStatus'.frameType = ListenFrame
              /\ lastFrameEnd' = Emitted.sampleEnd
              /\ frameStatus'.frameStart = 0
              /\ frameStatus'.frameEnd = 0 ]_vars

\* a REQB and then another frame were appended; the response to the second
\* is awaited with the REQB's guard time and the default waiting time
C21_Witness ==
    /\ Len(frames) = 2
    /\ frames[1].payload = ReqbFrame
    /\ frames[2].phase = ApplicationFrame
    /\ lastFrameEnd = frames[2].sampleEnd
    /\ frameStatus.frameType = ListenFrame
    /\ frameStatus.guardEnd = frames[2].sampleEnd + TruncSamples(sampleRate, 128 * 7)
    /\ frameStatus.waitingEnd
         = frames[2].sampleEnd + TruncSamples(sampleRate, 256 * 16 * 16)

\* symbolEndTime - symbolStartTime of the selected modulation
SymbolSpan ==
    modulationStatus[modulation].symbolEndTime
      - modulationStatus[modulation].symbolStartTime

\* C22 (as stated): after a confirmed SOF, in every state until the frame's
\* terminal outcome, symbolStartTime < symbolEndTime and symbolEndTime -
\* symbolStartTime lies in [period1 - period4, period1 + period4].
C22_SymbolSpanWithinQuarter ==
    bitrate # NULL =>
        /\ SymbolSpan > 0
        /\ SymbolSpan >= bitrateParams[bitrate].period1SymbolSamples
                           - bitrateParams[bitrate].period4SymbolSamples
        /\ SymbolSpan <= bitrateParams[bitrate].period1SymbolSamples
                           + bitrateParams[bitrate].period4SymbolSamples

\* C22 (amended): when detect() confirms the SOF, symbolStartTime and
\* symbolEndTime delimit the SOF (its first and its last falling edge), more
\* than period1 + period4 apart; from the first sample decode() takes until
\* the frame's terminal outcome symbolEndTime - symbolStartTime is exactly
\* period1, hence within [period1 - period4, period1 + period4].
C22_SymbolSpanAfterFirstSample ==
    bitrate # NULL =>
        IF detected
        THEN SymbolSpan > bitrateParams[bitrate].period1SymbolSamples
                            + bitrateParams[bitrate].period4SymbolSamples
        ELSE SymbolSpan = bitrateParams[bitrate].period1SymbolSamples

\* the symbol routine re-synchronized on an edge before the predicted end of
\* the symbol and predicted the next symbol from it
C22_Witness ==
    /\ bitrate # NULL
    /\ ~detected
    /\ streamStatus.bits > 0
    /\ modulationStatus[modulation].symbolSyncTime # 0
    /\ modulationStatus[modulation].symbolStartTime < symbolStatus.end
    /\ SymbolSpan = bitrateParams[bitrate].period1SymbolSamples

\* what decode() makes of the next sample, as a function of the symbol status
\* it is entered with (every other variable as in the current state)
DecodeAfter(sym, sample, power) ==
    LET b == bitrateParams[bitrate]
        t == TrackSymbol(modulationStatus[modulation], b, signalClock + 1,
                         PushSample(signalData, sample, bitrateParams), power)
        symbol == IF t.symbol.pattern = Invalid
                  THEN [ sym EXCEPT !.pattern = Invalid ]
                  ELSE t.symbol
        pattern == symbol.pattern
        fs == [ frameStatus EXCEPT !.frameEnd = symbol.end ]
        response == Response(streamStatus, fs, symbol, pattern, protocolStatus)
        kept == [ modulationStatus |-> [ modulationStatus EXCEPT ![modulation] = t.mod ],
                  symbolStatus |-> symbol,
                  streamStatus |-> streamStatus,
                  frameStatus |-> frameStatus,
                  protocolStatus |-> protocolStatus,
                  lastFrameEnd |-> lastFrameEnd,
                  chainedFlags |-> chainedFlags,
                  bitrate |-> bitrate,
                  modulation |-> modulation,
                  frames |-> frames ]
    IN  IF pattern <= NoPattern
        THEN kept
        ELSE IF ~Terminal(streamStatus, pattern, protocolStatus)
        THEN [ kept EXCEPT !.streamStatus = NextBit(streamStatus, symbol.value) ]
        ELSE IF EmitsFrame(streamStatus)
        THEN [ modulationStatus |->
                 [ modulationStatus EXCEPT ![modulation] = ClearSymbolTimes(t.mod) ],
               symbolStatus |-> symbol,
               streamStatus |-> ZeroStream,
               frameStatus |-> ProcessStatus(fs, response.payload, b),
               protocolStatus |-> ProcessProtocol(protocolStatus, response.payload),
               lastFrameEnd |-> fs.frameEnd,
               chainedFlags |-> IF IsREQB(response.payload) THEN 0 ELSE chainedFlags,
               bitrate |-> NULL,
               modulation |-> NULL,
               frames |-> Append(frames, ProcessFrame(response)) ]
        ELSE [ kept EXCEPT
                 !.modulationStatus =
                     [ rate \in Rates |->
                         ResetModulationStatus(
                           IF rate = modulation THEN t.mod ELSE modulationStatus[rate]) ],
                 !.symbolStatus = ZeroSymbol,
                 !.streamStatus = ZeroStream,
                 !.frameStatus = ResetFrameStatus(frameStatus),
                 !.bitrate = NULL,
                 !.modulation = NULL ]

\* the decoder state a decode step leaves
Decoded ==
    [ modulationStatus |-> modulationStatus', symbolStatus |-> symbolStatus',
      streamStatus |-> streamStatus', frameStatus |-> frameStatus',
      protocolStatus |-> protocolStatus', lastFrameEnd |-> lastFrameEnd',
      chainedFlags |-> chainedFlags', bitrate |-> bitrate',
      modulation |-> modulation', frames |-> frames' ]

\* decode() is entered and returns at once, the buffer being exhausted
ExhaustedStep ==
    /\ sampleRate # 0 /\ bitrate # NULL /\ frameStatus.frameType = PollFrame
    /\ signalClock' = signalClock
    /\ sampleRate' = sampleRate

\* C23: decoding does not depend on how the samples are split into buffers.
\* A decode() call on an exhausted buffer leaves the symbol pattern Invalid
\* and changes nothing else (the framer's bits, data and bytes included);
\* every decode step is the function DecodeAfter of the state and the sample;
\* and after such a call the next sample, whatever it is, leads to the same
\* symbol, frame and state as it would have without the call.
C23_SplitIndependent ==
    [][ /\ ExhaustedStep =>
              /\ symbolStatus' = [ symbolStatus EXCEPT !.pattern = Invalid ]
              /\ streamStatus' = streamStatus
              /\ UNCHANGED << sampleRate, bitrateParams, modulationStatus,
                              frameStatus, protocolStatus, lastFrameEnd,
                              chainedFlags, signalClock, signalData, powerAverage,
                              bitrate, modulation, frames >>
              /\ \A sample \in SignalLevels \cup {Overshoot} :
                    \A power \in {WeakPower, FullPower} :
                       DecodeAfter(symbolStatus', sample, power)
                         = DecodeAfter(symbolStatus, sample, power)
        /\ DecodeStep =>
              Decoded = DecodeAfter(symbolStatus, signalData'[1], powerAverage')
      ]_vars

\* the buffer ended right after the sampling point of a data bit: the symbol
\* pattern is Invalid again and the character in progress is kept
C23_Witness ==
    /\ bitrate # NULL
    /\ streamStatus.bits \in 2 .. 8
    /\ streamStatus.data # 0
    /\ modulationStatus[modulation].symbolSyncTime = 0
    /\ symbolStatus.pattern = Invalid
    /\ symbolStatus.length > 0

\* the rate goes from stage BEGIN to stage IDLE in this detect() call
BeginToIdle(rate) ==
    /\ DetectStep
    /\ modulationStatus[rate].searchStage = SOF_BEGIN
    /\ modulationStatus'[rate].searchStage = SOF_IDLE

\* the rate is in stage BEGIN before and after this detect() call
StaysInBegin(rate) ==
    /\ DetectStep
    /\ modulationStatus[rate].searchStage = SOF_BEGIN
    /\ modulationStatus'[rate].searchStage = SOF_BEGIN

\* C24: in stage BEGIN the detector moves to IDLE only when the clock reaches
\* the closing deadline (peak time + period4) of the window a positive,
\* depth-gated edge peak of the current search opened, and then
\* symbolStartTime is that peak's time minus period8 and the IDLE window is
\* (peak + 10 period1 - period2, peak + 11 period1 + period2]; while it stays
\* in BEGIN a window is open only if such a peak opened it.
C24_IdleOnlyFromSearchPeak ==
    [][ \A rate \in Rates :
          LET b == bitrateParams[rate]
              m == modulationStatus[rate]
              n == modulationStatus'[rate]
          IN  /\ BeginToIdle(rate) =>
                    /\ m.searchPeakTime # 0
                    /\ m.detectorPeek > 0
                    /\ signalClock' = m.searchPeakTime + b.period4SymbolSamples
                    /\ n.symbolStartTime = m.searchPeakTime - b.period8SymbolSamples
                    /\ n.searchStartTime = m.searchPeakTime
                          + 10 * b.period1SymbolSamples - b.period2SymbolSamples
                    /\ n.searchEndTime = m.searchPeakTime
                          + 11 * b.period1SymbolSamples + b.period2SymbolSamples
              /\ StaysInBegin(rate) =>
                    (n.searchEndTime # 0 =>
                       /\ n.detectorPeek > 0
                       /\ n.searchEndTime = n.searchPeakTime + b.period4SymbolSamples
                       /\ n.searchEndTime > signalClock') ]_vars

\* after the first frame the detector is in IDLE with a window that closed
\* before the frame ended: no edge of the current search opened it
C24_Witness ==
    /\ tx = PowerFirst - 2
    /\ Len(frames) = 1
    /\ bitrate = NULL
    /\ modulationStatus[r106k].searchStage = SOF_IDLE
    /\ modulationStatus[r106k].searchEndTime < frames[1].sampleEnd
    /\ modulationStatus[r106k].symbolStartTime < frames[1].sampleEnd

\* the symbol the symbol routine returns in a decode step
StepSymbol ==
    TrackSymbol(modulationStatus[modulation], bitrateParams[bitrate],
                signalClock', signalData', powerAverage').symbol

\* a decode step that hands a symbol to the framer without ending the frame
BitStep ==
    /\ DecodeStep
    /\ StepPattern > NoPattern
    /\ ~Terminal(streamStatus, StepPattern, protocolStatus)

\* C25: the payload of an emitted frame is the characters received, in
\* reception order, each assembled LSB first. The start-bit symbol (bits = 0)
\* adds no data bit; data symbol i (bits = i, 1..8) adds v_i * 2^(i-1) to a
\* data word that holds the lower bits only; the symbol taken with bits = 9
\* appends the byte and leaves bits = data = 0; nothing else changes the
\* buffer, and the frame appended carries the buffer's bytes in order.
C25_BytesLsbFirst ==
    [][ /\ BitStep =>
              LET v == StepSymbol.value
                  i == streamStatus.bits
              IN  /\ v \in {0, 1}
                  /\ (StepPattern = PatternH) = (v = 1)
                  /\ i = 0 =>
                        /\ streamStatus.data = 0
                        /\ streamStatus' = [ streamStatus EXCEPT !.bits = 1 ]
                  /\ i \in 1 .. 8 =>
                        /\ streamStatus.data < 2 ^ (i - 1)
                        /\ streamStatus' =
                              [ streamStatus EXCEPT
                                  !.data = @ + v * 2 ^ (i - 1), !.bits = i + 1 ]
                  /\ i = 9 =>
                        /\ StepPattern = PatternH
                        /\ streamStatus' =
                              [ streamStatus EXCEPT
                                  !.buffer = Append(@, streamStatus.data),
                                  !.bytes = @ + 1, !.data = 0, !.bits = 0 ]
                  /\ i <= 9
        /\ (DecodeStep /\ ~BitStep /\ ~TerminalStep) => streamStatus' = streamStatus
        /\ Emits =>
              /\ Emitted.payload = streamStatus.buffer
              /\ Len(streamStatus.buffer) = streamStatus.bytes
        /\ (ScriptDone' /\ tx = ReqbScript) =>
              (Len(frames') = 1 /\ frames'[1].payload = ReqbFrame)
      ]_vars

\* the stop bit of the first character of a REQB was consumed: the byte 05,
\* sent as L HLHLLLLL H, is in the buffer and bits and data are 0
C25_Witness ==
    /\ tx = ReqbScript
    /\ bitrate # NULL
    /\ symbolStatus.pattern = PatternH
    /\ streamStatus.bytes = 1
    /\ streamStatus.buffer = << 5 >>
    /\ streamStatus.bits = 0
    /\ streamStatus.data = 0

\* C26: a detect() call made while the power average is at or below
\* powerLevelThreshold returns false and leaves the decoder state as it was:
\* the search stage, window, peak tracker and integrators of every rate, the
\* frame status, the symbol and stream status, the protocol status, the frame
\* list and the bitrate and modulation selected.
C26_LowPowerDetectIsNoop ==
    [][ (DetectStep /\ powerAverage' <= powerLevelThreshold) =>
          /\ ~detected'
          /\ UNCHANGED << modulationStatus, frameStatus, symbolStatus,
                          streamStatus, protocolStatus, lastFrameEnd,
                          chainedFlags, bitrate, modulation, frames,
                          sampleRate, bitrateParams >> ]_vars

\* detect() was called at low power while the SOF search was in stage IDLE
\* with the integrators loaded
C26_Witness ==
    /\ sampleRate # 0
    /\ bitrate = NULL
    /\ powerAverage <= powerLevelThreshold
    /\ signalClock = Scripts[tx].glitchAt
    /\ ~detected
    /\ modulationStatus[r106k].searchStage = SOF_IDLE
    /\ modulationStatus[r106k].searchEndTime > signalClock
    /\ modulationStatus[r106k].filterIntegrate # 0

\* the step detaches the bitrate and the modulation selected
SelectorsCleared == bitrate # NULL /\ bitrate' = NULL

\* the step selects a bitrate and a modulation
SelectorsSet == bitrate = NULL /\ bitrate' # NULL

\* C27: the bitrate and modulation selectors have exactly two writers: they go
\* from null to set only when detect() confirms a SOF, and from set to null
\* only inside resetModulation, that is together with the search stage,
\* window and held peak of every rate, the stream and symbol status and the
\* frame type and bounds being cleared; no other step changes them.
C27_SelectorsTwoWriters ==
    [][ /\ SelectorsSet =>
              /\ DetectStep
              /\ detected'
              /\ modulation' = bitrate'
              /\ frameStatus'.frameType = PollFrame
        /\ SelectorsCleared =>
              /\ DecodeStep
              /\ modulation' = NULL
              /\ ResetClears
        /\ (bitrate' # bitrate \/ modulation' # modulation) =>
              (SelectorsSet \/ SelectorsCleared)
      ]_vars

\* a REQB was appended and the selectors are null, with the frame type
\* ListenFrame, the last symbol in symbolStatus and the resync window of the
\* last symbol in the search window: resetModulation has not run
C27_Witness ==
    /\ tx = ReqbScript
    /\ Len(frames) = 1
    /\ frames[1].payload = ReqbFrame
    /\ bitrate = NULL
    /\ modulation = NULL
    /\ frameStatus.frameType = ListenFrame
    /\ symbolStatus.pattern = PatternL
    /\ modulationStatus[r106k].searchEndTime = frames[1].sampleEnd + 2
    /\ signalClock = frames[1].sampleEnd - 4

\* decodeFrame() would enter the poll framer and the symbol tracker
PollFramerRuns == sampleRate # 0 /\ frameStatus.frameType = PollFrame

\* C28: the bitrate and modulation selectors are either both null or both
\* set (to the same rate), and whenever frameType is PollFrame, the one
\* condition under which decode() enters the poll framer and the symbol
\* tracker, both are set; after a frame is appended or dropped frameType is
\* not PollFrame, so the next decode() call does not enter them.
C28_SelectorsSetWhilePollFrame ==
    /\ (bitrate = NULL) = (modulation = NULL)
    /\ bitrate # NULL => (bitrate \in Rates /\ modulation = bitrate)
    /\ PollFramerRuns => (bitrate # NULL /\ modulation # NULL)
    /\ (sampleRate # 0 /\ bitrate = NULL) => frameStatus.frameType # PollFrame

\* a second frame is being decoded after a first was appended: the selectors
\* were nulled at the first frame's end and set again by the second SOF
C28_Witness ==
    /\ Len(frames) = 1
    /\ lastFrameEnd = frames[1].sampleEnd
    /\ PollFramerRuns
    /\ bitrate = r106k
    /\ modulation = r106k
    /\ frameStatus.frameStart > lastFrameEnd
    /\ streamStatus.bits > 0

\* the SOF search of the rate is in stage IDLE or END
InSofWindow(rate) ==
    /\ sampleRate # 0
    /\ modulationStatus[rate].searchStage \in {SOF_IDLE, SOF_END}

\* C29: while a SOF search is in stage IDLE or END the sample clock never
\* passes searchEndTime: whatever the samples and the power levels, by the
\* sample equal to searchEndTime the detector has returned to BEGIN or
\* confirmed the SOF.
C29_WindowStagesEndByDeadline ==
    \A rate \in Rates :
        InSofWindow(rate) => signalClock < modulationStatus[rate].searchEndTime

\* the transmission was read to its end with the search still in stage END,
\* more than a frame's length after the window closed
C29_Witness ==
    /\ tx >= PowerFirst
    /\ ScriptDone
    /\ frames = << >>
    /\ modulationStatus[r106k].searchStage = SOF_END
    /\ Scripts[tx].glitchAt = modulationStatus[r106k].searchEndTime
    /\ signalClock > modulationStatus[r106k].searchEndTime + 100

\* symbols the framer has taken since the SOF was confirmed
SymbolsTaken == 10 * streamStatus.bytes + streamStatus.bits

\* the clock at which the symbol in symbolStatus was sampled
LastSyncClock ==
    symbolStatus.start + bitrateParams[bitrate].symbolDelayDetect
        + bitrateParams[bitrate].period2SymbolSamples

\* C30: during symbol tracking the sampling point is never missed. In every
\* pass of the symbol routine, after the prediction (and after any
\* re-synchronization in the window), symbolSyncTime >= signalClock: the pass
\* either returns PatternL or PatternH or leaves the sampling point ahead of
\* the clock, and a symbol is returned at most period1 + period4 samples
\* after the one before. The framer has taken at most 10 * maxFrameSize
\* symbols without a terminal outcome, and the symbol after those is terminal.
C30_SamplingPointNeverMissed ==
    [][ DecodeStep =>
          LET b == bitrateParams[bitrate]
              m == TrackSymbol(modulationStatus[modulation], b, signalClock',
                               signalData', powerAverage').mod
              limit == b.period1SymbolSamples + b.period4SymbolSamples
          IN  /\ StepPattern \in {Invalid, PatternL, PatternH}
              /\ StepPattern = Invalid =>
                    /\ m.symbolSyncTime > signalClock'
                    /\ m.symbolSyncTime = m.symbolStartTime + b.period2SymbolSamples
                    /\ SymbolsTaken > 0 => m.symbolSyncTime <= LastSyncClock + limit
              /\ StepPattern > NoPattern =>
                    /\ signalClock' = StepSymbol.start + b.symbolDelayDetect
                                        + b.period2SymbolSamples
                    /\ SymbolsTaken > 0 => signalClock' <= LastSyncClock + limit
              /\ SymbolsTaken <= 10 * protocolStatus.maxFrameSize
              /\ (StepPattern > NoPattern
                    /\ SymbolsTaken = 10 * protocolStatus.maxFrameSize) =>
                    /\ TerminalStep
                    /\ Emits
      ]_vars

\* 10 * maxFrameSize symbols were taken since the SOF and no terminal outcome
\* was met yet
C30_Witness ==
    /\ bitrate # NULL
    /\ frames = << >>
    /\ SymbolsTaken = 10 * protocolStatus.maxFrameSize
    /\ streamStatus.bytes = DefaultMaxFrameSize
    /\ symbolStatus.pattern = PatternH
    /\ modulationStatus[modulation].symbolSyncTime = 0

\* C31: frames appended one after the other never overlap in time: the later
\* frame's sampleStart is at or after the earlier frame's sampleEnd, and a SOF
\* is confirmed only from edges met after the previous frame ended
\* (frameStart, taken from the first SOF edge, is not before lastFrameEnd).
C31_FramesDoNotOverlap ==
    /\ \A i \in 1 .. (Len(frames) - 1) :
          frames[i + 1].sampleStart >= frames[i].sampleEnd
    /\ (bitrate # NULL /\ frames # << >>) =>
          frameStatus.frameStart >= lastFrameEnd

\* after a first frame of one character cut by a stream error, a second
\* frame was appended whose sampleStart lies inside the first frame, at the
\* last edge of the first frame's SOF
C31_Witness ==
    /\ tx = PowerFirst - 1
    /\ Len(frames) = 2
    /\ frames[1].payload = << 165 >>
    /\ frames[1].sampleStart < frames[2].sampleStart
    /\ frames[2].sampleStart < frames[1].sampleEnd
    /\ frames[2].sampleEnd > frames[1].sampleEnd

====
